---- MODULE Spec2Model ----
(***************************************************************************)
(* Model of the naming and resource-resolution engine of                   *)
(* nuxt-openapi-composables (core/naming.ts, core/resource-parser.ts,      *)
(* core/method-generator.ts), of the run of core/generator.ts over the     *)
(* file system and of the error path of templates/useOpenApi.ts.           *)
(*                                                                         *)
(* JavaScript strings that the code inspects character by character are    *)
(* sequences of one-character strings; MIME types, which the code only     *)
(* compares for equality, are atomic strings.                              *)
(***************************************************************************)
EXTENDS Integers, Sequences, FiniteSets, TLC

VARIABLES
  str,        \* toPascalCase: the input string
  pascal,     \* toPascalCase: results of the successive applications
  schema,     \* the parsed OpenAPI schema
  path,       \* the path argument of the call
  method,     \* the verb argument of the call
  methodNames, \* ensureUniqueMethodNames: the candidate map, in insertion order
  resourceName, \* the resource identity argument of the call
  pathItemArg,  \* getHttpMethods: the path item argument
  called,     \* the function that has been called, "none" before the call
  result,     \* the value the call returned
  config,     \* generateComposables: the GeneratorConfig argument
  fs,         \* the file system: directories, types file, output files
  generatedFiles, \* generateComposables: the manifest of the files written
  uniqueLoop, \* ensureUniqueMethodNames: the locals of its second loop
  fetched,    \* apiCall: how the $fetch promise settled
  pc,         \* the position of the running function
  error       \* the error the running function has thrown, None if none

stepVars == <<config, fs, generatedFiles, uniqueLoop, fetched, pc, error>>

vars ==
  <<str, pascal, schema, path, method, methodNames, resourceName, pathItemArg,
    called, result, config, fs, generatedFiles, uniqueLoop, fetched, pc,
    error>>

(***************************************************************************)
(* Bounds of the model.                                                    *)
(***************************************************************************)
MaxStrLen == 4
MaxContentTypes == 2
MaxOps == 2
MaxEntries == 3
MaxPaths == 3
MaxKeys == 3

(***************************************************************************)
(* Characters and the String methods the code uses.                        *)
(***************************************************************************)
LowerChars ==
  <<"a", "b", "c", "d", "e", "f", "g", "h", "i", "j", "k", "l", "m",
    "n", "o", "p", "q", "r", "s", "t", "u", "v", "w", "x", "y", "z">>

UpperChars ==
  <<"A", "B", "C", "D", "E", "F", "G", "H", "I", "J", "K", "L", "M",
    "N", "O", "P", "Q", "R", "S", "T", "U", "V", "W", "X", "Y", "Z">>

IsLower(c) == \E i \in 1..Len(LowerChars) : LowerChars[i] = c

IsUpper(c) == \E i \in 1..Len(UpperChars) : UpperChars[i] = c

\* the regular-expression class \s, restricted to the characters of the model
IsSpace(c) == c = " "

UpperOf(c) ==
  IF IsLower(c)
    THEN UpperChars[CHOOSE i \in 1..Len(LowerChars) : LowerChars[i] = c]
    ELSE c

LowerOf(c) ==
  IF IsUpper(c)
    THEN LowerChars[CHOOSE i \in 1..Len(UpperChars) : UpperChars[i] = c]
    ELSE c

toUpperCase(s) == [i \in 1..Len(s) |-> UpperOf(s[i])]

toLowerCase(s) == [i \in 1..Len(s) |-> LowerOf(s[i])]

\* String.prototype.slice(from) with a 0-based, non-negative index
SliceFrom(s, from) == SubSeq(s, from + 1, Len(s))

\* String.prototype.startsWith
StartsWith(s, prefix) ==
  /\ Len(prefix) <= Len(s)
  /\ SubSeq(s, 1, Len(prefix)) = prefix

\* String.prototype.indexOf, 1-based; 0 when the needle does not occur
IndexOf(s, needle) ==
  LET hits == {i \in 1..(Len(s) - Len(needle) + 1) :
                 SubSeq(s, i, i + Len(needle) - 1) = needle}
  IN IF hits = {} THEN 0 ELSE CHOOSE i \in hits : \A j \in hits : i <= j

\* String.prototype.includes
Includes(s, needle) == IndexOf(s, needle) # 0

\* String.prototype.split on a one-character delimiter class
RECURSIVE SplitAcc(_, _, _, _)
SplitAcc(s, delims, cur, acc) ==
  IF s = <<>> THEN Append(acc, cur)
  ELSE IF Head(s) \in delims
    THEN SplitAcc(Tail(s), delims, <<>>, Append(acc, cur))
    ELSE SplitAcc(Tail(s), delims, Append(cur, Head(s)), acc)

Split(s, delims) == SplitAcc(s, delims, <<>>, <<>>)

\* Array.prototype.join('')
RECURSIVE Join(_)
Join(words) == IF words = <<>> THEN <<>> ELSE Head(words) \o Join(Tail(words))

\* str.replace(/([a-z])([A-Z])/g, '$1-$2')
RECURSIVE SplitCamel(_)
SplitCamel(s) ==
  IF Len(s) <= 1 THEN s
  ELSE IF IsLower(s[1]) /\ IsUpper(s[2])
    THEN <<s[1], "-">> \o SplitCamel(Tail(s))
    ELSE <<s[1]>> \o SplitCamel(Tail(s))

(***************************************************************************)
(* naming.ts: toPascalCase                                                 *)
(***************************************************************************)
\* the class [-\s]
DashOrSpace == {"-", " "}

\* the class [-_\s], restricted to the characters of the model
WordDelims == {"-", "_", " "}

NonEmpty(word) == Len(word) > 0

\* a capitalisation that keeps the rest of the word as written
CapitalizeKeepRest(word) ==
  <<UpperOf(word[1])>> \o SliceFrom(word, 1)

Capitalize(word) ==
  <<UpperOf(word[1])>> \o toLowerCase(SliceFrom(word, 1))

PascalWords(s) == SelectSeq(Split(SplitCamel(s), WordDelims), NonEmpty)

toPascalCase(s) ==
  LET words == PascalWords(s)
  IN Join([i \in 1..Len(words) |-> Capitalize(words[i])])

(***************************************************************************)
(* types.ts: the schema.  An optional property is None or Some(value); an  *)
(* object is the sequence of its entries in declaration order.             *)
(***************************************************************************)
None == [has |-> FALSE]

Some(v) == [has |-> TRUE, val |-> v]

\* the value of reading index 0 of an empty array
JsUndefined == "<undefined>"

\* array[0]
ElementAt0(array) == IF Len(array) > 0 THEN array[1] ELSE JsUndefined

\* schema.paths[p]
PathItemOf(sch, p) ==
  LET hits == {i \in 1..Len(sch.paths) : sch.paths[i].path = p}
  IN IF hits = {} THEN None ELSE Some(sch.paths[CHOOSE i \in hits : TRUE].item)

\* pathItem[m]
OperationOf(pathItem, m) ==
  LET hits == {i \in 1..Len(pathItem) : pathItem[i].key = m}
  IN IF hits = {} THEN None ELSE Some(pathItem[CHOOSE i \in hits : TRUE].op)

\* operation.requestBody?.content
RequestContentOf(operation) ==
  IF operation.requestBody.has THEN operation.requestBody.val.content ELSE None

\* the content of the first response that declares one, whatever its status
AnyResponseContentOf(operation, status) ==
  IF ~operation.responses.has THEN None
  ELSE LET rs == operation.responses.val
           hits == {i \in 1..Len(rs) : rs[i].content.has}
       IN IF hits = {} THEN None
          ELSE rs[CHOOSE i \in hits : \A j \in hits : i <= j].content

\* operation.responses?.[status]?.content
ResponseContentOf(operation, status) ==
  IF ~operation.responses.has THEN None
  ELSE LET rs == operation.responses.val
           hits == {i \in 1..Len(rs) : rs[i].status = status}
       IN IF hits = {} THEN None ELSE rs[CHOOSE i \in hits : TRUE].content

\* Array.prototype.includes
Contains(array, x) == \E i \in 1..Len(array) : array[i] = x

GET == <<"g", "e", "t">>
POST == <<"p", "o", "s", "t">>
PUT == <<"p", "u", "t">>
PATCH == <<"p", "a", "t", "c", "h">>
DELETE == <<"d", "e", "l", "e", "t", "e">>

IdToken == <<"{", "i", "d", "}">>

(***************************************************************************)
(* resource-parser.ts: getContentType                                      *)
(***************************************************************************)
\* the request-body branch with the plain-JSON test ahead of the merge-patch test
RequestBodyTypeJsonFirst(contentTypes, m) ==
  IF Contains(contentTypes, "application/json") THEN "application/json"
  ELSE IF m = PATCH /\ Contains(contentTypes, "application/merge-patch+json")
    THEN "application/merge-patch+json"
  ELSE IF Contains(contentTypes, "application/ld+json") THEN "application/ld+json"
  ELSE ElementAt0(contentTypes)

\* the request-body branch with application/ld+json ahead of application/json
RequestBodyTypeLdFirst(contentTypes, m) ==
  IF m = PATCH /\ Contains(contentTypes, "application/merge-patch+json")
    THEN "application/merge-patch+json"
  ELSE IF Contains(contentTypes, "application/ld+json") THEN "application/ld+json"
  ELSE IF Contains(contentTypes, "application/json") THEN "application/json"
  ELSE ElementAt0(contentTypes)

RequestBodyType(contentTypes, m) ==
  IF m = PATCH /\ Contains(contentTypes, "application/merge-patch+json")
    THEN "application/merge-patch+json"
  ELSE IF Contains(contentTypes, "application/json") THEN "application/json"
  ELSE IF Contains(contentTypes, "application/ld+json") THEN "application/ld+json"
  ELSE ElementAt0(contentTypes)

\* the response branch that prefers application/ld+json for every get
ResponseTypeAnyGet(contentTypes, m, isCollection) ==
  IF m = GET /\ Contains(contentTypes, "application/ld+json")
    THEN "application/ld+json"
  ELSE IF Contains(contentTypes, "application/json") THEN "application/json"
  ELSE IF Contains(contentTypes, "application/ld+json") THEN "application/ld+json"
  ELSE ElementAt0(contentTypes)

ResponseType(contentTypes, m, isCollection) ==
  IF m = GET /\ isCollection /\ Contains(contentTypes, "application/ld+json")
    THEN "application/ld+json"
  ELSE IF m = GET /\ isCollection /\ Contains(contentTypes, "application/json")
    THEN "application/json"
  ELSE IF Contains(contentTypes, "application/json") THEN "application/json"
  ELSE IF Contains(contentTypes, "application/ld+json") THEN "application/ld+json"
  ELSE ElementAt0(contentTypes)

getContentType(p, m, sch) ==
  LET pathItem == PathItemOf(sch, p)
  IN IF ~pathItem.has \/ ~OperationOf(pathItem.val, m).has
       THEN "application/json"
     ELSE
       LET operation == OperationOf(pathItem.val, m).val
           isCollection == ~Includes(p, IdToken)
           requestContent == RequestContentOf(operation)
           okContent == ResponseContentOf(operation, "200")
       IN IF requestContent.has THEN RequestBodyType(requestContent.val, m)
          ELSE IF okContent.has THEN ResponseType(okContent.val, m, isCollection)
          ELSE "application/json"

(***************************************************************************)
(* naming.ts: getResourceName                                              *)
(***************************************************************************)
Authentication ==
  <<"a", "u", "t", "h", "e", "n", "t", "i", "c", "a", "t", "i", "o", "n">>
AuthMarker == <<"/", "a", "u", "t", "h", "/">>
LoginMarker == <<"/", "l", "o", "g", "i", "n">>
TokenMarker == <<"/", "t", "o", "k", "e", "n">>
ApiPrefix == <<"/", "a", "p", "i", "/">>
Login == <<"l", "o", "g", "i", "n">>
Token == <<"t", "o", "k", "e", "n">>

\* the marker test that looks at whole segments: an auth segment anywhere, or
\* login or token as the last segment
IsAuthPathBySegment(p) ==
  LET segments == Split(p, {"/"})
  IN \/ Includes(p, AuthMarker)
     \/ segments[Len(segments)] \in {Login, Token}

\* path.includes('/auth/') || path.includes('/login') || path.includes('/token')
IsAuthPath(p) ==
  Includes(p, AuthMarker) \/ Includes(p, LoginMarker) \/ Includes(p, TokenMarker)

\* the index just after the run of non-slash characters that starts at from
RECURSIVE SegmentEnd(_, _)
SegmentEnd(p, from) ==
  IF from > Len(p) \/ p[from] = "/" THEN from ELSE SegmentEnd(p, from + 1)

\* the capture group taking everything up to the end of the path: (.+)
ApiSegmentToEnd(p) ==
  LET starts == {i \in 1..(Len(p) - Len(ApiPrefix)) :
                   SubSeq(p, i, i + Len(ApiPrefix) - 1) = ApiPrefix}
  IN IF starts = {} THEN <<>>
     ELSE LET first == CHOOSE i \in starts : \A j \in starts : i <= j
          IN SubSeq(p, first + Len(ApiPrefix), Len(p))

\* path.match(/\/api\/([^/]+)/)?.[1] ?? ''
ApiSegment(p) ==
  LET starts == {i \in 1..(Len(p) - Len(ApiPrefix)) :
                   /\ SubSeq(p, i, i + Len(ApiPrefix) - 1) = ApiPrefix
                   /\ p[i + Len(ApiPrefix)] # "/"}
  IN IF starts = {} THEN <<>>
     ELSE LET first == CHOOSE i \in starts : \A j \in starts : i <= j
              from == first + Len(ApiPrefix)
          IN SubSeq(p, from, SegmentEnd(p, from) - 1)

\* str.replace(/\s+/g, '-')
RECURSIVE SpacesToDash(_)
SpacesToDash(s) ==
  IF s = <<>> THEN <<>>
  ELSE IF IsSpace(s[1])
    THEN IF Len(s) > 1 /\ IsSpace(s[2])
           THEN SpacesToDash(Tail(s))
           ELSE <<"-">> \o SpacesToDash(Tail(s))
    ELSE <<s[1]>> \o SpacesToDash(Tail(s))

\* the tag conversion without the final toLowerCase()
TagToDashForm(tag) == SpacesToDash(SplitCamel(tag))

\* tag.replace(camel).replace(spaces).toLowerCase()
TagToResourceName(tag) == toLowerCase(SpacesToDash(SplitCamel(tag)))

\* the scan with post ahead of get
MethodsPostFirst == <<POST, GET, PUT, PATCH, DELETE>>

\* const methods = ['get', 'post', 'put', 'patch', 'delete']
Methods == <<GET, POST, PUT, PATCH, DELETE>>

\* operation?.tags?.[0] is truthy
HasFirstTag(operation) ==
  /\ operation.has
  /\ operation.val.tags.has
  /\ Len(operation.val.tags.val) > 0
  /\ operation.val.tags.val[1] # <<>>

getResourceName(p, sch) ==
  IF IsAuthPath(p) THEN Authentication
  ELSE IF ApiSegment(p) # <<>> THEN ApiSegment(p)
  ELSE
    LET pathItem == PathItemOf(sch, p)
    IN IF ~pathItem.has THEN <<>>
       ELSE
         LET tagged == {k \in 1..Len(Methods) :
                          HasFirstTag(OperationOf(pathItem.val, Methods[k]))}
         IN IF tagged = {} THEN <<>>
            ELSE LET k == CHOOSE i \in tagged : \A j \in tagged : i <= j
                 IN TagToResourceName(
                      OperationOf(pathItem.val, Methods[k]).val.tags.val[1])

(***************************************************************************)
(* resource-parser.ts: extractResources, getResourcePaths, getHttpMethods  *)
(***************************************************************************)
\* The characters of the model in the order of the collation that
\* String.prototype.localeCompare applies (the root collation of the host's
\* ICU data): white space, then punctuation, then digits, then letters.  The
\* two cases of a letter have the same place.
CollationChars ==
  <<" ", "_", "-", ":", "{", "}", "/",
    "0", "1", "2", "3", "4", "5", "6", "7", "8", "9",
    "a", "b", "c", "d", "e", "f", "g", "h", "i", "j", "k", "l", "m",
    "n", "o", "p", "q", "r", "s", "t", "u", "v", "w", "x", "y", "z">>

CollationWeight(c) ==
  CHOOSE i \in 1..Len(CollationChars) : CollationChars[i] = LowerOf(c)

\* the first level of the comparison: the places of the characters
RECURSIVE ComparePrimary(_, _)
ComparePrimary(a, b) ==
  IF a = <<>> /\ b = <<>> THEN 0
  ELSE IF a = <<>> THEN -1
  ELSE IF b = <<>> THEN 1
  ELSE IF CollationWeight(a[1]) < CollationWeight(b[1]) THEN -1
  ELSE IF CollationWeight(a[1]) > CollationWeight(b[1]) THEN 1
  ELSE ComparePrimary(Tail(a), Tail(b))

\* the last level, between strings that the first level finds equal (they
\* have the same length): the lowercase letter first
RECURSIVE CompareCase(_, _)
CompareCase(a, b) ==
  IF a = <<>> THEN 0
  ELSE IF IsLower(a[1]) /\ IsUpper(b[1]) THEN -1
  ELSE IF IsUpper(a[1]) /\ IsLower(b[1]) THEN 1
  ELSE CompareCase(Tail(a), Tail(b))

\* a.localeCompare(b)
localeCompare(a, b) ==
  IF ComparePrimary(a, b) # 0 THEN ComparePrimary(a, b) ELSE CompareCase(a, b)

\* the place of an entry in a sorted array: after the entries that compare
\* lower or equal (Array.prototype.sort is stable)
RECURSIVE InsertByPath(_, _)
InsertByPath(entry, sorted) ==
  IF sorted = <<>> THEN <<entry>>
  ELSE IF localeCompare(entry.path, sorted[1].path) < 0
    THEN <<entry>> \o sorted
    ELSE <<sorted[1]>> \o InsertByPath(entry, Tail(sorted))

\* the entries as filter leaves them, in the order of the schema
KeepSchemaOrder(entries) == entries

\* .sort(([a], [b]) => a.localeCompare(b))
RECURSIVE SortByPath(_)
SortByPath(entries) ==
  IF entries = <<>> THEN <<>>
  ELSE InsertByPath(entries[Len(entries)],
                    SortByPath(SubSeq(entries, 1, Len(entries) - 1)))

\* if (resource) resources.add(resource), without the test
AddAnyResource(resources, resource) ==
  IF Contains(resources, resource) THEN resources
  ELSE Append(resources, resource)

\* if (resource) resources.add(resource): a Set keeps the insertion order
AddResource(resources, resource) ==
  IF resource = <<>> \/ Contains(resources, resource) THEN resources
  ELSE Append(resources, resource)

RECURSIVE ExtractFrom(_, _, _)
ExtractFrom(sch, i, resources) ==
  IF i > Len(sch.paths) THEN resources
  ELSE ExtractFrom(sch, i + 1,
                   AddResource(resources, getResourceName(sch.paths[i].path, sch)))

extractResources(sch) == ExtractFrom(sch, 1, <<>>)

getResourcePaths(r, sch) ==
  LET OfResource(entry) == getResourceName(entry.path, sch) = r
      sorted == SortByPath(SelectSeq(sch.paths, OfResource))
  IN [i \in 1..Len(sorted) |->
        [path |-> sorted[i].path, pathItem |-> sorted[i].item]]

\* ['get', 'post', 'put', 'patch', 'delete']
HttpMethods == <<GET, POST, PUT, PATCH, DELETE>>

\* the filter that also lets the other operation keys of a path item through
IsOperationKey(key) ==
  \/ Contains(HttpMethods, key)
  \/ key \in {<<"o", "p", "t", "i", "o", "n", "s">>, <<"h", "e", "a", "d">>,
               <<"t", "r", "a", "c", "e">>}

\* the test of the filter

IsHttpMethod(key) == Contains(HttpMethods, key)

getHttpMethods(item) ==
  LET keys == [i \in 1..Len(item) |-> item[i].key]
  IN SelectSeq(keys, IsHttpMethod)

(***************************************************************************)
(* naming.ts: ensureUniqueMethodNames.  A Map is the sequence of its       *)
(* entries in insertion order; a key is the string path:verb.              *)
(***************************************************************************)
\* String.prototype.replace with a string pattern: the first occurrence only
ReplaceFirst(s, pattern, replacement) ==
  LET at == IndexOf(s, pattern)
  IN IF at = 0 THEN s
     ELSE SubSeq(s, 1, at - 1) \o replacement
            \o SubSeq(s, at + Len(pattern), Len(s))

Digits == <<"0", "1", "2", "3", "4", "5", "6", "7", "8", "9">>

\* the decimal text of a counter, as a template literal renders it
RECURSIVE Decimal(_)
Decimal(n) ==
  IF n < 10 THEN <<Digits[n + 1]>>
  ELSE Decimal(n \div 10) \o <<Digits[(n % 10) + 1]>>

CREATE == <<"c", "r", "e", "a", "t", "e">>

\* const methodVerbs = ['get', 'create', 'delete', 'patch', 'put']
MethodVerbs == <<GET, CREATE, DELETE, PATCH, PUT>>

\* methodNameCounts.get(methodName) || 0
NameCount(candidates, name) ==
  Cardinality({i \in 1..Len(candidates) : candidates[i].name = name})

\* the result of the loop over methodVerbs: inserted, and uniqueName
InsertSegment(methodName, segment) ==
  LET matching == {k \in 1..Len(MethodVerbs) :
                     StartsWith(methodName, MethodVerbs[k])}
  IN IF matching = {} THEN [inserted |-> FALSE, name |-> methodName]
     ELSE LET verb == MethodVerbs[CHOOSE k \in matching :
                                    \A j \in matching : k <= j]
              verbCapitalized == <<UpperOf(verb[1])>> \o SliceFrom(verb, 1)
          IN [inserted |-> TRUE,
              name |-> ReplaceFirst(methodName, verbCapitalized,
                                    verbCapitalized \o toPascalCase(segment))]

\* the loop over the path segments, from index i down to the first one
RECURSIVE SegmentName(_, _, _, _)
SegmentName(methodName, pathSegments, i, usedNames) ==
  IF i = 0 THEN [found |-> FALSE, name |-> methodName]
  ELSE LET segment == pathSegments[i]
           attempt == InsertSegment(methodName, segment)
       IN IF /\ segment # <<"a", "p", "i">>
             /\ ~Includes(segment, <<"{">>)
             /\ attempt.inserted
             /\ attempt.name \notin usedNames
            THEN [found |-> TRUE, name |-> attempt.name]
            ELSE SegmentName(methodName, pathSegments, i - 1, usedNames)

\* the while loop of the numeric fallback
RECURSIVE NumberedName(_, _, _)
NumberedName(methodName, counter, usedNames) ==
  IF (methodName \o Decimal(counter)) \in usedNames
    THEN NumberedName(methodName, counter + 1, usedNames)
    ELSE methodName \o Decimal(counter)

\* every candidate is sent through the disambiguation
AlwaysDisambiguate(count, methodName, usedNames) == TRUE

\* the test that leaves an already claimed name to a single candidate
MustDisambiguateByCount(count, methodName, usedNames) == count > 1

\* count > 1 || usedNames.has(methodName)
MustDisambiguate(count, methodName, usedNames) ==
  count > 1 \/ methodName \in usedNames

\* the final name of one entry, given the names claimed so far
FinalName(candidates, entry, usedNames) ==
  LET methodName == entry.name
      p == Split(entry.key, {":"})[1]
      pathSegments == SelectSeq(Split(p, {"/"}), NonEmpty)
  IN IF MustDisambiguate(NameCount(candidates, methodName), methodName, usedNames)
       THEN LET bySegment == SegmentName(methodName, pathSegments,
                                         Len(pathSegments), usedNames)
            IN IF bySegment.found THEN bySegment.name
               ELSE NumberedName(methodName, 1, usedNames)
       ELSE methodName

\* the second forEach, from entry k on
RECURSIVE UniqueFrom(_, _, _, _)
UniqueFrom(candidates, k, finalMethodNames, usedNames) ==
  IF k > Len(candidates) THEN finalMethodNames
  ELSE LET name == FinalName(candidates, candidates[k], usedNames)
       IN UniqueFrom(candidates, k + 1,
                     Append(finalMethodNames,
                            [key |-> candidates[k].key, name |-> name]),
                     usedNames \cup {name})

ensureUniqueMethodNames(candidates) == UniqueFrom(candidates, 1, <<>>, {})

(***************************************************************************)
(* naming.ts: toSingular, generateMethodName                               *)
(***************************************************************************)
\* String.prototype.endsWith
EndsWith(s, suffix) ==
  /\ Len(suffix) <= Len(s)
  /\ SubSeq(s, Len(s) - Len(suffix) + 1, Len(s)) = suffix

\* str.slice(0, -n)
DropLast(s, n) == SubSeq(s, 1, Len(s) - n)

\* the name left in the plural
KeepPlural(s) == s

toSingular(s) ==
  IF EndsWith(s, <<"i", "e", "s">>) THEN DropLast(s, 3) \o <<"y">>
  ELSE IF EndsWith(s, <<"s", "s", "e", "s">>) THEN DropLast(s, 2)
  ELSE IF EndsWith(s, <<"s">>) /\ ~EndsWith(s, <<"s", "s">>) THEN DropLast(s, 1)
  ELSE s

ApiWord == <<"a", "p", "i">>

\* path.split('/').filter(seg => seg && seg !== 'api')
IsResourcePathSegment(seg) == seg # <<>> /\ seg # ApiWord

\* every segment after the first that is not a parameter
ModifiersWithBase(pathSegments) ==
  LET IsModifier(seg) == ~Includes(seg, <<"{">>)
  IN IF pathSegments = <<>> THEN <<>>
     ELSE SelectSeq(Tail(pathSegments), IsModifier)

\* the loop that fills pathModifiers
PathModifiers(pathSegments) ==
  LET IsModifier(seg) == ~Includes(seg, <<"{">>) /\ seg # pathSegments[1]
  IN IF pathSegments = <<>> THEN <<>>
     ELSE SelectSeq(Tail(pathSegments), IsModifier)

\* the name of the last parameter of the path
LastParamMatch(p) ==
  LET closes == {k \in 1..Len(p) : p[k] = "}"}
      close == CHOOSE k \in closes : \A j \in closes : j <= k
      opens == {i \in 1..Len(p) : p[i] = "{" /\ i < close}
      open == CHOOSE i \in opens : \A j \in opens : j <= i
  IN IF closes = {} \/ opens = {} THEN None
     ELSE Some(SubSeq(p, open + 1, close - 1))

\* path.match(/\{([^}]+)\}/): the first group of the leftmost match, or None
ParamMatch(p) ==
  LET closes(i) == {k \in (i + 1)..Len(p) : p[k] = "}"}
      close(i) == CHOOSE k \in closes(i) : \A j \in closes(i) : k <= j
      opens == {i \in 1..Len(p) :
                  p[i] = "{" /\ closes(i) # {} /\ close(i) > i + 1}
  IN IF opens = {} THEN None
     ELSE LET i == CHOOSE o \in opens : \A j \in opens : o <= j
          IN Some(SubSeq(p, i + 1, close(i) - 1))

\* pathModifiers.map(m => toPascalCase(m)).join('')
ModifierPascal(pathModifiers) ==
  Join([i \in 1..Len(pathModifiers) |-> toPascalCase(pathModifiers[i])])

generateMethodName(p, m, sch) ==
  LET resource == getResourceName(p, sch)
      baseName == toPascalCase(resource)
      pathSegments == SelectSeq(Split(p, {"/"}), IsResourcePathSegment)
      hasPathParams == Includes(p, <<"{">>)
      hasIdParam == Includes(p, IdToken)
      pathModifiers == PathModifiers(pathSegments)
      modifierPascal == ModifierPascal(pathModifiers)
      paramMatch == ParamMatch(p)
  IN IF resource = <<>> THEN m
     ELSE IF hasIdParam
       THEN IF Len(pathModifiers) > 0
              THEN m \o toSingular(baseName) \o modifierPascal
              ELSE m \o toSingular(baseName)
     ELSE IF hasPathParams /\ paramMatch.has
       THEN m \o baseName \o <<"B", "y">> \o toPascalCase(paramMatch.val)
     ELSE IF Len(pathModifiers) > 0
       THEN IF m = GET
              THEN m \o modifierPascal \o baseName
              ELSE m \o baseName \o modifierPascal
     ELSE m \o baseName

(***************************************************************************)
(* method-generator.ts and generator.ts: the units that are generated.  A  *)
(* generated file is the record of what its text holds: the name of the    *)
(* composable, the methods in the order of their definitions and the names *)
(* in the order of the return statement.                                   *)
(***************************************************************************)
\* Array.prototype.flat
RECURSIVE Flat(_)
Flat(arrays) ==
  IF arrays = <<>> THEN <<>> ELSE Head(arrays) \o Flat(Tail(arrays))

\* `${path}:${method}`
MapKey(p, m) == p \o <<":">> \o m

\* Map.prototype.get of a key the map holds
MapGet(map, key) == map[CHOOSE i \in 1..Len(map) : map[i].key = key].name

\* resourceNames.flatMap(resourceName => getResourcePaths(resourceName, schema))
AllResourcePaths(resourceNames, sch) ==
  Flat([i \in 1..Len(resourceNames) |-> getResourcePaths(resourceNames[i], sch)])

\* the (path, verb) pairs the two nested forEach loops visit, in their order
Endpoints(resourcePaths) ==
  Flat([i \in 1..Len(resourcePaths) |->
          LET httpMethods == getHttpMethods(resourcePaths[i].pathItem)
          IN [j \in 1..Len(httpMethods) |->
                [path |-> resourcePaths[i].path, method |-> httpMethods[j]]]])

\* the first pass: methodNames.set(`${path}:${method}`, methodName)
CandidateMethodNames(endpoints, sch) ==
  [k \in 1..Len(endpoints) |->
     [key |-> MapKey(endpoints[k].path, endpoints[k].method),
      name |-> generateMethodName(endpoints[k].path, endpoints[k].method, sch)]]

\* the method definitions, in the order of the two nested map calls
MethodDefinitions(endpoints, finalMethodNames, sch) ==
  [k \in 1..Len(endpoints) |->
     [name |-> MapGet(finalMethodNames,
                      MapKey(endpoints[k].path, endpoints[k].method)),
      path |-> endpoints[k].path,
      method |-> endpoints[k].method,
      contentType |-> getContentType(endpoints[k].path, endpoints[k].method,
                                     sch)]]

\* Array.from(finalMethodNames.values())
ReturnMethods(finalMethodNames) ==
  [k \in 1..Len(finalMethodNames) |-> finalMethodNames[k].name]

\* the pairs visited and the final names are values computed once, as the
\* constants of the code are, and the file is made from them
generateComposableFromResources(resourceNames, sch) ==
  LET allResourcePaths == AllResourcePaths(resourceNames, sch)
  IN IF Len(allResourcePaths) = 0 THEN None
     ELSE CHOOSE composable \in
            {Some([composableName |-> toPascalCase(resourceNames[1]),
                   methods |->
                     MethodDefinitions(endpoints, finalMethodNames, sch),
                   returnMethods |-> ReturnMethods(finalMethodNames)]) :
               <<endpoints, finalMethodNames>> \in
                 {<<e, ensureUniqueMethodNames(CandidateMethodNames(e, sch))>> :
                    e \in {Endpoints(allResourcePaths)}}} : TRUE

\* a file for every resource name, also when no path belongs to it
ComposableWithoutPaths(resourceName_, sch) ==
  Some([composableName |-> toPascalCase(resourceName_),
        methods |-> <<>>,
        returnMethods |-> <<>>])

generateComposable(resourceName_, sch) ==
  generateComposableFromResources(<<resourceName_>>, sch)

\* a record with the default content type
GeneratedMethodAsJson(endpoint, finalMethodNames, sch) ==
  [name |-> MapGet(finalMethodNames, MapKey(endpoint.path, endpoint.method)),
   path |-> endpoint.path,
   httpMethod |-> endpoint.method,
   contentType |-> "application/json"]

\* the record that result.push adds for one (path, verb) pair
GeneratedMethod(endpoint, finalMethodNames, sch) ==
  [name |-> MapGet(finalMethodNames, MapKey(endpoint.path, endpoint.method)),
   path |-> endpoint.path,
   httpMethod |-> endpoint.method,
   contentType |-> getContentType(endpoint.path, endpoint.method, sch)]

\* if (name): the empty string is not pushed
HasName(generated) == generated.name # <<>>

\* the pairs visited and the final names are values computed once
getGeneratedMethods(resourceName_, sch) ==
  CHOOSE generated \in
    {SelectSeq([k \in 1..Len(endpoints) |->
                  GeneratedMethod(endpoints[k], finalMethodNames, sch)],
               HasName) :
       <<endpoints, finalMethodNames>> \in
         {<<e, ensureUniqueMethodNames(CandidateMethodNames(e, sch))>> :
            e \in {Endpoints(getResourcePaths(resourceName_, sch))}}} : TRUE

\* `use${toPascalCase(resource)}Api.ts`
FileNameOf(resource) ==
  <<"u", "s", "e">> \o toPascalCase(resource)
    \o <<"A", "p", "i", ".", "t", "s">>

\* resourcesByFilename.set(fileName, existingResources) after the push
AddToFile(byFilename, resource) ==
  LET fileName == FileNameOf(resource)
      hits == {i \in 1..Len(byFilename) : byFilename[i].fileName = fileName}
  IN IF hits = {}
       THEN Append(byFilename,
                   [fileName |-> fileName, resourceList |-> <<resource>>])
       ELSE [i \in 1..Len(byFilename) |->
               IF i \in hits
                 THEN [fileName |-> fileName,
                       resourceList |->
                         Append(byFilename[i].resourceList, resource)]
                 ELSE byFilename[i]]

\* the loop that groups the resources by file name
RECURSIVE ResourcesByFilename(_)
ResourcesByFilename(resources) ==
  IF resources = <<>> THEN <<>>
  ELSE AddToFile(ResourcesByFilename(SubSeq(resources, 1, Len(resources) - 1)),
                 resources[Len(resources)])

\* the files that the loop over resourcesByFilename writes, in its order
GeneratedFiles(sch) ==
  LET byFilename == ResourcesByFilename(extractResources(sch))
      files == [i \in 1..Len(byFilename) |->
                  [fileName |-> byFilename[i].fileName,
                   composable |->
                     generateComposableFromResources(
                       byFilename[i].resourceList, sch)]]
      IsWritten(file) == file.composable.has
  IN SelectSeq(files, IsWritten)

(***************************************************************************)
(* generator.ts: validateSchema, generateTypes, copyUseOpenApi and the     *)
(* steps of generateComposables over the file system.  A directory is the  *)
(* sequence of its segments; fs.dirs are the directories that exist,       *)
(* fs.typesFiles the types files written, fs.files the files of the        *)
(* output directory in the order of their first write.                     *)
(***************************************************************************)
MissingOpenapi == "Invalid OpenAPI schema: missing \"openapi\" field"
NoPathsDefined == "Invalid OpenAPI schema: no paths defined"
SchemaPathRequired == "Schema path is required"
OutputDirRequired == "Output directory is required"
SchemaNotFound == "OpenAPI schema file not found"
NoResourcesFound == "No API resources found in the schema"
TypesFailed == "openapi-typescript failed"

\* !schema.openapi: the property is missing or the empty string
LacksOpenapi(document) ==
  "openapi" \notin DOMAIN document \/ document.openapi = ""

\* !schema.paths || Object.keys(schema.paths).length === 0
LacksPaths(document) ==
  "paths" \notin DOMAIN document \/ Len(document.paths) = 0

\* a schema is accepted when it declares paths, whatever else it lacks
validateSchemaPathsOnly(document) ==
  IF LacksPaths(document) THEN Some(NoPathsDefined) ELSE None

\* the error validateSchema throws, None when it returns
validateSchema(document) ==
  IF LacksOpenapi(document) THEN Some(MissingOpenapi)
  ELSE IF LacksPaths(document) THEN Some(NoPathsDefined)
  ELSE None

\* dirname(outputPath)
Dirname(outputPath) == SubSeq(outputPath, 1, Len(outputPath) - 1)

\* the directory and its ancestors
WithAncestors(dir) == {SubSeq(dir, 1, k) : k \in 1..Len(dir)}

\* if (!existsSync(dir)) mkdirSync(dir, { recursive: true }): the directory
\* and every missing ancestor of it are created
Mkdir(fileSystem, dir) ==
  IF dir \in fileSystem.dirs THEN fileSystem
  ELSE [fileSystem EXCEPT
          !.dirs = @ \cup WithAncestors(dir),
          !.created = @ \cup (WithAncestors(dir) \ fileSystem.dirs)]

\* the writes of generateTypes
generateTypes(fileSystem, outputPath) ==
  [Mkdir(fileSystem, Dirname(outputPath)) EXCEPT
     !.typesFiles = @ \cup {outputPath}]

\* writeFileSync(join(outputDir, fileName), content): the file is created
\* or its content replaced
WriteFile(files, fileName, content) ==
  LET written == [fileName |-> fileName, content |-> content]
  IN IF \E i \in 1..Len(files) : files[i].fileName = fileName
       THEN [i \in 1..Len(files) |->
               IF files[i].fileName = fileName THEN written ELSE files[i]]
       ELSE Append(files, written)

\* join(outputDir, 'useOpenApi.ts')
UseOpenApiTs ==
  <<"u", "s", "e", "O", "p", "e", "n", "A", "p", "i", ".", "t", "s">>

\* the template with its comment and import path
HelperContent == [kind |-> "helper"]

ComposableContent(composable) ==
  [kind |-> "composable", composable |-> composable]

\* the write of copyUseOpenApi
copyUseOpenApi(files) == WriteFile(files, UseOpenApiTs, HelperContent)

\* for (const [fileName, resourceList] of resourcesByFilename): the writes
RECURSIVE WriteAll(_, _)
WriteAll(files, generated) ==
  IF generated = <<>> THEN files
  ELSE WriteAll(WriteFile(files, Head(generated).fileName,
                          ComposableContent(Head(generated).composable.val)),
                Tail(generated))

\* allMethods.add(method.name) for every record: a Set keeps the first
\* occurrence of a value
RECURSIVE AddAll(_, _)
AddAll(allMethods, names) ==
  IF names = <<>> THEN allMethods
  ELSE AddAll(IF Contains(allMethods, Head(names)) THEN allMethods
              ELSE Append(allMethods, Head(names)),
              Tail(names))

\* the names of the records of getGeneratedMethods
MethodNamesOf(resource, sch) ==
  LET methods == getGeneratedMethods(resource, sch)
  IN [k \in 1..Len(methods) |-> methods[k].name]

\* Array.from(allMethods) after the loop over resourceList
RECURSIVE AllMethods(_, _)
AllMethods(resourceList, sch) ==
  IF resourceList = <<>> THEN <<>>
  ELSE AddAll(AllMethods(SubSeq(resourceList, 1, Len(resourceList) - 1), sch),
              MethodNamesOf(resourceList[Len(resourceList)], sch))

\* generatedFiles after the loop: an entry for every file written
Manifest(sch) ==
  LET byFilename == ResourcesByFilename(extractResources(sch))
      IsWritten(group) ==
        generateComposableFromResources(group.resourceList, sch).has
      written == SelectSeq(byFilename, IsWritten)
  IN [i \in 1..Len(written) |->
        [fileName |-> written[i].fileName,
         methods |-> AllMethods(written[i].resourceList, sch)]]

(***************************************************************************)
(* templates/useOpenApi.ts: throwError and apiCall.  An error object is a  *)
(* record of its message and of the optional properties statusCode and     *)
(* statusMessage.                                                          *)
(***************************************************************************)
\* createError({ statusCode, statusMessage }) of Nuxt
createError(statusCode, statusMessage) ==
  [name |-> "H3Error", message |-> statusMessage,
   statusCode |-> Some(statusCode), statusMessage |-> Some(statusMessage)]

\* calling createError where Nuxt does not define it
ReferenceError ==
  [name |-> "ReferenceError", message |-> "createError is not defined",
   statusCode |-> None, statusMessage |-> None]

\* what the try block of throwError throws
ThrownInTry(statusCode, statusMessage, createErrorDefined) ==
  IF createErrorDefined THEN createError(statusCode, statusMessage)
  ELSE ReferenceError

\* new Error(statusMessage) with error.statusCode = statusCode
FallbackError(statusCode, statusMessage) ==
  [name |-> "Error", message |-> statusMessage,
   statusCode |-> Some(statusCode), statusMessage |-> None]

\* the error throwError throws: the catch clause has no binding and catches
\* whatever the try block threw, the error made by createError included
throwError(statusCode, statusMessage, createErrorDefined) ==
  LET caught == ThrownInTry(statusCode, statusMessage, createErrorDefined)
  IN FallbackError(statusCode, statusMessage)

\* apiError.response._data?.message || 'API Error'
ErrorMessage(response) ==
  IF response.data.has /\ response.data.val.message.has
       /\ response.data.val.message.val # ""
    THEN response.data.val.message.val
    ELSE "API Error"

\* headers['Content-Type'] || (PATCH ? merge-patch : json)
RequestContentType(verb, headers) ==
  IF headers.has /\ headers.val # "" THEN headers.val
  ELSE IF verb = "PATCH" THEN "application/merge-patch+json"
  ELSE "application/json"

\* the error apiCall throws when $fetch rejects
ApiCallError(rejection, createErrorDefined) ==
  IF rejection.response.has
    THEN throwError(rejection.response.val.status,
                    ErrorMessage(rejection.response.val), createErrorDefined)
    ELSE throwError(500, "Network Error", createErrorDefined)

(***************************************************************************)
(* Inputs of the model.                                                    *)
(***************************************************************************)
RECURSIVE SeqsUpTo(_, _)
SeqsUpTo(S, n) ==
  IF n = 0 THEN {<<>>}
  ELSE LET shorter == SeqsUpTo(S, n - 1)
       IN shorter \cup {Append(s, c) : s \in shorter, c \in S}

PascalAlphabet == {"a", "b", "A", "B", "-", "_", " "}

PascalInputs == SeqsUpTo(PascalAlphabet, MaxStrLen)

\* the keys of an object are distinct
DistinctSeqsUpTo(S, n) ==
  {s \in SeqsUpTo(S, n) : \A i, j \in 1..Len(s) : i # j => s[i] # s[j]}

Mimes ==
  {"application/json", "application/ld+json",
   "application/merge-patch+json", "text/plain"}

ContentMaps == DistinctSeqsUpTo(Mimes, MaxContentTypes)

Contents == {None} \cup {Some(keys) : keys \in ContentMaps}

RequestBodies == {None} \cup {Some([content |-> c]) : c \in Contents}

OkResponse(c) == [status |-> "200", content |-> c]

CreatedResponse == [status |-> "201", content |-> Some(<<"application/ld+json">>)]

ResponseMaps ==
  {None, Some(<<>>), Some(<<CreatedResponse>>)}
    \cup {Some(<<OkResponse(c)>>) : c \in Contents}
    \cup {Some(<<OkResponse(c), CreatedResponse>>) : c \in Contents}

ContentOperations ==
  [tags : {None}, requestBody : RequestBodies, responses : ResponseMaps]

PathApiTasks == <<"/", "a", "p", "i", "/", "t", "a", "s", "k", "s">>
PathApiTasksId ==
  <<"/", "a", "p", "i", "/", "t", "a", "s", "k", "s", "/", "{", "i", "d", "}">>

ContentPaths == {PathApiTasks, PathApiTasksId}

ContentVerbs == {GET, POST, PATCH}

EmptySchema == [paths |-> <<>>]

\* a schema with one path that declares one operation
OneOperationSchema(p, m, o) ==
  [paths |-> <<[path |-> p, item |-> <<[key |-> m, op |-> o]>>]>>]

ContentSchemas ==
  {EmptySchema} \cup
    {OneOperationSchema(p, m, o) :
       p \in ContentPaths, m \in ContentVerbs, o \in ContentOperations}

PathAuthLogin == <<"/", "a", "u", "t", "h", "/", "l", "o", "g", "i", "n">>
PathApiAuthToken ==
  <<"/", "a", "p", "i", "/", "a", "u", "t", "h", "/", "t", "o", "k", "e",
  "n">>
PathApiTokensId ==
  <<"/", "a", "p", "i", "/", "t", "o", "k", "e", "n", "s", "/", "{", "i",
  "d", "}">>
PathApiLoginHistory ==
  <<"/", "a", "p", "i", "/", "l", "o", "g", "i", "n", "-", "h", "i", "s",
  "t", "o", "r", "y">>
PathApiHabitEntries ==
  <<"/", "a", "p", "i", "/", "h", "a", "b", "i", "t", "-", "e", "n", "t",
  "r", "i", "e", "s">>
PathCustomPath ==
  <<"/", "c", "u", "s", "t", "o", "m", "/", "p", "a", "t", "h">>
PathLogin == <<"/", "l", "o", "g", "i", "n">>
PathApiAuthentication ==
  <<"/", "a", "p", "i", "/", "a", "u", "t", "h", "e", "n", "t", "i", "c",
  "a", "t", "i", "o", "n">>
PathApi == <<"/", "a", "p", "i">>
PathV1ApiTasks ==
  <<"/", "v", "1", "/", "a", "p", "i", "/", "t", "a", "s", "k", "s">>
PathCustomOther ==
  <<"/", "c", "u", "s", "t", "o", "m", "/", "o", "t", "h", "e", "r">>

PathApiUpperTasks == <<"/", "a", "p", "i", "/", "T", "a", "s", "k", "s">>

ResourcePaths ==
  {PathApiTasks, PathApiTasksId, PathAuthLogin, PathApiAuthToken,
   PathApiTokensId, PathApiLoginHistory, PathApiHabitEntries, PathCustomPath,
   PathLogin, PathApiAuthentication, PathApi, PathV1ApiTasks,
   PathApiUpperTasks}

TagUserLimits == <<"U", "s", "e", "r", "L", "i", "m", "i", "t", "s">>
TagLoginCheck ==
  <<"L", "o", "g", "i", "n", " ", " ", "C", "h", "e", "c", "k">>
TagAuthentication ==
  <<"A", "u", "t", "h", "e", "n", "t", "i", "c", "a", "t", "i", "o", "n">>

TagLists ==
  {None, Some(<<>>), Some(<< <<>> >>), Some(<<TagUserLimits>>),
   Some(<<TagLoginCheck>>), Some(<<TagAuthentication>>),
   Some(<<TagLoginCheck, TagUserLimits>>)}

TaggedOperations == [tags : TagLists, requestBody : {None}, responses : {None}]

ResourceVerbs == {GET, POST, DELETE}

\* the path items that declare up to MaxOps operations, in any order
PathItems ==
  {[i \in 1..Len(keys) |-> [key |-> keys[i], op |-> ops[i]]] :
     <<keys, ops>> \in
       {ko \in DistinctSeqsUpTo(ResourceVerbs, MaxOps)
                 \X SeqsUpTo(TaggedOperations, MaxOps) :
          Len(ko[1]) = Len(ko[2])}}

OnePathSchema(p, item) == [paths |-> <<[path |-> p, item |-> item]>>]

\* candidate names that collide with each other, with a numbered name and
\* with a name that a segment insertion produces
CandidateNames ==
  {<<"g", "e", "t", "A">>, <<"g", "e", "t", "A", "1">>,
   <<"g", "e", "t", "G", "e", "t", "A">>,
   <<"g", "e", "t", "G", "e", "t", "B", "A">>,
   <<"p", "o", "s", "t", "A">>}

CandidateKeys ==
  {<<"/", "a", "p", "i", "/", "b", ":", "g", "e", "t">>,
   <<"/", "a", "p", "i", "/", "b", ":", "p", "o", "s", "t">>,
   <<"/", "a", "p", "i", "/", "c", "/", "b", ":", "g", "e", "t">>,
   <<"/", "a", "p", "i", "/", "{", "i", "d", "}", ":", "g", "e", "t">>}

\* the candidate maps of up to MaxEntries entries, in every insertion order
CandidateMaps ==
  {[i \in 1..Len(keys) |-> [key |-> keys[i], name |-> names[i]]] :
     <<keys, names>> \in
       {kn \in DistinctSeqsUpTo(CandidateKeys, MaxEntries)
                 \X SeqsUpTo(CandidateNames, MaxEntries) :
          Len(kn[1]) = Len(kn[2])}}

PathApiTasksStats ==
  <<"/", "a", "p", "i", "/", "t", "a", "s", "k", "s", "/", "s", "t", "a",
  "t", "s">>
PathApiUserLimits ==
  <<"/", "a", "p", "i", "/", "u", "s", "e", "r", "-", "l", "i", "m", "i",
  "t", "s">>
PathApiUserLimitsSnake ==
  <<"/", "a", "p", "i", "/", "u", "s", "e", "r", "_", "l", "i", "m", "i",
  "t", "s">>
TagTasks == <<"T", "a", "s", "k", "s">>
Tasks == <<"t", "a", "s", "k", "s">>
UserLimitsDash == <<"u", "s", "e", "r", "-", "l", "i", "m", "i", "t", "s">>
UserLimitsSnake == <<"u", "s", "e", "r", "_", "l", "i", "m", "i", "t", "s">>
Goals == <<"g", "o", "a", "l", "s">>

GroupPaths ==
  {PathApiTasks, PathApiTasksId, PathApiTasksStats, PathApiUserLimits,
   PathApiUserLimitsSnake, PathCustomPath, PathAuthLogin}

NoContentOperation == [tags |-> None, requestBody |-> None, responses |-> None]

\* post and get, the get answering with both JSON flavours
ItemPostGet ==
  <<[key |-> POST, op |-> NoContentOperation],
    [key |-> GET,
     op |-> [tags |-> None, requestBody |-> None,
             responses |->
               Some(<<OkResponse(Some(<<"application/ld+json",
                                        "application/json">>))>>)]]>>

\* a get tagged Tasks
ItemGetTagged ==
  <<[key |-> GET,
     op |-> [tags |-> Some(<<TagTasks>>), requestBody |-> None,
             responses |-> None]]>>

GroupItems == {ItemPostGet, ItemGetTagged}

\* the path items a path is declared with: either of them for the path that
\* is resolved by its tags, one of them for a path under the API root,
\* where the tags are not read
GroupItemsOf(p) ==
  IF p = PathCustomPath THEN GroupItems
  ELSE IF p \in {PathApiTasksId, PathApiUserLimits} THEN {ItemGetTagged}
  ELSE {ItemPostGet}

\* the schemas of up to MaxPaths paths, in every order of the path keys
GroupSchemas ==
  UNION {{[paths |-> [i \in 1..Len(ps) |-> [path |-> ps[i], item |-> items[i]]]] :
            items \in {f \in [1..Len(ps) -> GroupItems] :
                         \A i \in 1..Len(ps) : f[i] \in GroupItemsOf(ps[i])}} :
           ps \in DistinctSeqsUpTo(GroupPaths, MaxPaths)}

\* the identities getResourcePaths is asked for; no path resolves to goals
ResourceNames ==
  {Tasks, UserLimitsDash, UserLimitsSnake, Authentication, Goals, <<>>}

PARAMETERS == <<"p", "a", "r", "a", "m", "e", "t", "e", "r", "s">>
OPTIONS == <<"o", "p", "t", "i", "o", "n", "s">>
HEAD == <<"h", "e", "a", "d">>
TRACE == <<"t", "r", "a", "c", "e">>

\* the keys a path item may declare
PathItemKeys == {GET, POST, PUT, PATCH, DELETE, PARAMETERS, OPTIONS, HEAD, TRACE}

\* the path items of up to MaxKeys keys, in every declaration order;
\* getHttpMethods reads the keys only
KeyedPathItems ==
  {[i \in 1..Len(keys) |-> [key |-> keys[i], op |-> NoContentOperation]] :
     keys \in DistinctSeqsUpTo(PathItemKeys, MaxKeys)}

Data == <<"d", "a", "t", "a">>
Entries == <<"e", "n", "t", "r", "i", "e", "s">>
Classes == <<"c", "l", "a", "s", "s", "e", "s">>
Address == <<"a", "d", "d", "r", "e", "s", "s">>
Habits == <<"h", "a", "b", "i", "t", "s">>
Tokens == <<"t", "o", "k", "e", "n", "s">>
Users == <<"u", "s", "e", "r", "s">>
SuffixId == <<"/", "{", "i", "d", "}">>
SuffixEntityType ==
  <<"/", "{", "e", "n", "t", "i", "t", "y", "T", "y", "p", "e", "}">>
SuffixIdStreak ==
  <<"/", "{", "i", "d", "}", "/", "s", "t", "r", "e", "a", "k">>
SuffixBatch == <<"/", "b", "a", "t", "c", "h">>
SuffixSlugStreak ==
  <<"/", "{", "s", "l", "u", "g", "}", "/", "s", "t", "r", "e", "a", "k">>
SuffixEntityTypeSlug ==
  <<"/", "{", "e", "n", "t", "i", "t", "y", "T", "y", "p", "e", "}", "/",
  "{", "s", "l", "u", "g", "}">>
SuffixIdTokens ==
  <<"/", "{", "i", "d", "}", "/", "t", "o", "k", "e", "n", "s">>
PathCustomSlug ==
  <<"/", "c", "u", "s", "t", "o", "m", "/", "{", "s", "l", "u", "g", "}">>

\* the segments that follow /api/ in the paths that are named
NamingSegments ==
  {Tasks, Data, Entries, Classes, Address, Habits, Tokens, Users, UserLimitsDash}

\* what follows the resource segment r: nothing, {id}, another parameter,
\* an action after {id} (also the resource segment again), a modifier
NamingSuffixes(r) ==
  {<<>>, SuffixId, SuffixEntityType, SuffixIdStreak, SuffixId \o <<"/">> \o r,
   SuffixBatch, SuffixSlugStreak, SuffixEntityTypeSlug, SuffixIdTokens}

NamingPaths ==
  {ApiPrefix \o r \o suffix :
     <<r, suffix>> \in {rs \in NamingSegments \X UNION {NamingSuffixes(r) :
                                                          r \in NamingSegments} :
                          rs[2] \in NamingSuffixes(rs[1])}}
    \cup {PathCustomSlug}

NamingVerbs == {GET, POST, PUT, PATCH, DELETE}

\* the variables a specification does not use
PascalIdle == str = <<>> /\ pascal = <<>>

SchemaIdle ==
  /\ schema = EmptySchema
  /\ path = <<>>
  /\ method = <<>>
  /\ resourceName = <<>>
  /\ pathItemArg = <<>>

UniqueIdle == methodNames = <<>>

GeneratorIdle == config = <<>> /\ fs = <<>> /\ generatedFiles = <<>>

LoopIdle == uniqueLoop = <<>>

FetchIdle == fetched = <<>>

\* no function runs step by step
StepIdle ==
  /\ GeneratorIdle
  /\ LoopIdle
  /\ FetchIdle
  /\ pc = "idle"
  /\ error = None

CallIdle ==
  /\ SchemaIdle
  /\ UniqueIdle
  /\ called = "none"
  /\ result = <<>>

(***************************************************************************)
(* toPascalCase applied to an input and again to its own result.           *)
(***************************************************************************)
InitPascal ==
  /\ StepIdle
  /\ str \in PascalInputs
  /\ pascal = <<>>
  /\ CallIdle

ApplyToPascalCase ==
  /\ Len(pascal) < 2
  /\ pascal' = Append(pascal,
                 toPascalCase(IF pascal = <<>> THEN str ELSE pascal[Len(pascal)]))
  /\ UNCHANGED stepVars
  /\ UNCHANGED <<str, schema, path, method, methodNames, resourceName,
               pathItemArg, called, result>>

NextPascal == ApplyToPascalCase

SpecPascal == InitPascal /\ [][NextPascal]_vars

(***************************************************************************)
(* getContentType called on a schema, a path and a verb.                   *)
(***************************************************************************)
InitContent ==
  /\ StepIdle
  /\ schema \in ContentSchemas
  /\ path \in ContentPaths
  /\ method \in ContentVerbs
  /\ resourceName = <<>>
  /\ pathItemArg = <<>>
  /\ called = "none"
  /\ result = <<>>
  /\ PascalIdle
  /\ UniqueIdle

CallGetContentType ==
  /\ called = "none"
  /\ called' = "getContentType"
  /\ result' = getContentType(path, method, schema)
  /\ UNCHANGED stepVars
  /\ UNCHANGED <<str, pascal, schema, path, method, methodNames, resourceName,
               pathItemArg>>

NextContent == CallGetContentType

SpecContent == InitContent /\ [][NextContent]_vars

(***************************************************************************)
(* getResourceName called on a path and a schema.                          *)
(***************************************************************************)
InitResource ==
  /\ StepIdle
  /\ path \in ResourcePaths
  /\ schema \in {EmptySchema} \cup
                  {OnePathSchema(p, item) :
                     p \in {path, PathCustomOther}, item \in PathItems}
  /\ method = <<>>
  /\ resourceName = <<>>
  /\ pathItemArg = <<>>
  /\ called = "none"
  /\ result = <<>>
  /\ PascalIdle
  /\ UniqueIdle

CallGetResourceName ==
  /\ called = "none"
  /\ called' = "getResourceName"
  /\ result' = getResourceName(path, schema)
  /\ UNCHANGED stepVars
  /\ UNCHANGED <<str, pascal, schema, path, method, methodNames, resourceName,
               pathItemArg>>

NextResource == CallGetResourceName

SpecResource == InitResource /\ [][NextResource]_vars

(***************************************************************************)
(* ensureUniqueMethodNames called on a candidate map.                      *)
(***************************************************************************)
InitUnique ==
  /\ StepIdle
  /\ methodNames \in CandidateMaps
  /\ called = "none"
  /\ result = <<>>
  /\ PascalIdle
  /\ SchemaIdle

CallEnsureUniqueMethodNames ==
  /\ called = "none"
  /\ called' = "ensureUniqueMethodNames"
  /\ result' = ensureUniqueMethodNames(methodNames)
  /\ UNCHANGED stepVars
  /\ UNCHANGED <<str, pascal, schema, path, method, methodNames, resourceName,
               pathItemArg>>

NextUnique == CallEnsureUniqueMethodNames

SpecUnique == InitUnique /\ [][NextUnique]_vars

(***************************************************************************)
(* The functions that group the paths of a schema into resources.          *)
(***************************************************************************)
InitGroup ==
  /\ StepIdle
  /\ schema \in GroupSchemas
  /\ path = <<>>
  /\ method = <<>>
  /\ resourceName = <<>>
  /\ pathItemArg = <<>>
  /\ called = "none"
  /\ result = <<>>
  /\ PascalIdle
  /\ UniqueIdle

CallExtractResources ==
  /\ called = "none"
  /\ called' = "extractResources"
  /\ result' = extractResources(schema)
  /\ UNCHANGED stepVars
  /\ UNCHANGED <<str, pascal, schema, path, method, methodNames, resourceName,
               pathItemArg>>

CallGetResourcePaths ==
  /\ called = "none"
  /\ called' = "getResourcePaths"
  /\ \E r \in ResourceNames :
       /\ resourceName' = r
       /\ result' = getResourcePaths(r, schema)
  /\ UNCHANGED stepVars
  /\ UNCHANGED <<str, pascal, schema, path, method, methodNames,
               pathItemArg>>

\* the part of generateComposables that decides the files and their
\* content
CallGenerateComposables ==
  /\ called = "none"
  /\ extractResources(schema) # <<>>
  /\ called' = "generateComposables"
  /\ result' = GeneratedFiles(schema)
  /\ UNCHANGED stepVars
  /\ UNCHANGED <<str, pascal, schema, path, method, methodNames, resourceName,
               pathItemArg>>

NextGroup ==
  \/ CallExtractResources
  \/ CallGetResourcePaths
  \/ CallGenerateComposables

SpecGroup == InitGroup /\ [][NextGroup]_vars

(***************************************************************************)
(* generateComposable and getGeneratedMethods called for a resource        *)
(* identity.                                                               *)
(***************************************************************************)
MethodPaths ==
  {PathApiTasks, PathApiTasksId, PathApiTasksStats, PathApiUserLimits,
   PathCustomPath}

\* the schemas of up to MaxPaths of these paths, in every order of the keys
MethodSchemas ==
  UNION {{[paths |-> [i \in 1..Len(ps) |-> [path |-> ps[i], item |-> items[i]]]] :
            items \in {f \in [1..Len(ps) -> GroupItems] :
                         \A i \in 1..Len(ps) : f[i] \in GroupItemsOf(ps[i])}} :
           ps \in DistinctSeqsUpTo(MethodPaths, MaxPaths)}

\* the identities asked for; no path resolves to goals or to the empty one
MethodResources == {Tasks, UserLimitsDash, Goals, <<>>}

InitMethods ==
  /\ StepIdle
  /\ schema \in MethodSchemas
  /\ path = <<>>
  /\ method = <<>>
  /\ resourceName = <<>>
  /\ pathItemArg = <<>>
  /\ called = "none"
  /\ result = <<>>
  /\ PascalIdle
  /\ UniqueIdle

CallGenerateComposable ==
  /\ called = "none"
  /\ called' = "generateComposable"
  /\ \E r \in MethodResources :
       /\ resourceName' = r
       /\ result' = generateComposable(r, schema)
  /\ UNCHANGED stepVars
  /\ UNCHANGED <<str, pascal, schema, path, method, methodNames, pathItemArg>>

CallGetGeneratedMethods ==
  /\ called = "none"
  /\ called' = "getGeneratedMethods"
  /\ \E r \in MethodResources :
       /\ resourceName' = r
       /\ result' = getGeneratedMethods(r, schema)
  /\ UNCHANGED stepVars
  /\ UNCHANGED <<str, pascal, schema, path, method, methodNames, pathItemArg>>

NextMethods ==
  \/ CallGenerateComposable
  \/ CallGetGeneratedMethods

SpecMethods == InitMethods /\ [][NextMethods]_vars

(***************************************************************************)
(* getHttpMethods called on a path item.                                   *)
(***************************************************************************)
InitHttpMethods ==
  /\ StepIdle
  /\ pathItemArg \in KeyedPathItems
  /\ schema = EmptySchema
  /\ path = <<>>
  /\ method = <<>>
  /\ resourceName = <<>>
  /\ called = "none"
  /\ result = <<>>
  /\ PascalIdle
  /\ UniqueIdle

CallGetHttpMethods ==
  /\ called = "none"
  /\ called' = "getHttpMethods"
  /\ result' = getHttpMethods(pathItemArg)
  /\ UNCHANGED stepVars
  /\ UNCHANGED <<str, pascal, schema, path, method, methodNames, resourceName,
               pathItemArg>>

NextHttpMethods == CallGetHttpMethods

SpecHttpMethods == InitHttpMethods /\ [][NextHttpMethods]_vars

(***************************************************************************)
(* generateMethodName called on a path, a verb and a schema that declares  *)
(* the path.                                                               *)
(***************************************************************************)
InitNaming ==
  /\ StepIdle
  /\ path \in NamingPaths
  /\ method \in NamingVerbs
  /\ schema \in {OnePathSchema(path, item) : item \in GroupItems}
  /\ resourceName = <<>>
  /\ pathItemArg = <<>>
  /\ called = "none"
  /\ result = <<>>
  /\ PascalIdle
  /\ UniqueIdle

CallGenerateMethodName ==
  /\ called = "none"
  /\ called' = "generateMethodName"
  /\ result' = generateMethodName(path, method, schema)
  /\ UNCHANGED stepVars
  /\ UNCHANGED <<str, pascal, schema, path, method, methodNames, resourceName,
               pathItemArg>>

NextNaming == CallGenerateMethodName

SpecNaming == InitNaming /\ [][NextNaming]_vars

(***************************************************************************)
(* generateComposables run on a configuration, a schema file and a file    *)
(* system, one statement group at a time.                                  *)
(***************************************************************************)
MaxDeclared == 2

PathApiOpen == <<"/", "a", "p", "i", "/", "o", "p", "e", "n">>

GeneratePaths ==
  {PathApiTasks, PathApiUserLimits, PathApiUserLimitsSnake, PathCustomPath,
   PathApiOpen}

\* the paths objects of up to MaxDeclared paths, in every order of the keys
GeneratePathsObjects ==
  UNION {{[i \in 1..Len(ps) |-> [path |-> ps[i], item |-> items[i]]] :
            items \in {f \in [1..Len(ps) -> GroupItems] :
                         \A i \in 1..Len(ps) : f[i] \in GroupItemsOf(ps[i])}} :
           ps \in DistinctSeqsUpTo(GeneratePaths, MaxDeclared)}

\* the parsed schema file: with or without the openapi and paths properties
Documents ==
  {[openapi |-> version, paths |-> paths] :
     version \in {"", "3.0.3"}, paths \in GeneratePathsObjects}
    \cup {[paths |-> paths] : paths \in GeneratePathsObjects}
    \cup {[openapi |-> "3.0.3"], [info |-> "title"]}

OutputDir == <<"app", "composables", "api">>
TypesDefault == <<"app", "types", "api.ts">>
TypesInOutputDir == <<"app", "composables", "api", "api.ts">>
TypesBelowOutputDir == <<"app", "composables", "api", "types", "api.ts">>

\* the configurations: types off, types on without a path, types on with a
\* path beside, in or below the output directory; a configuration without
\* schema path, one without output directory
Configs ==
  {[schemaPath |-> "openapi.json", outputDir |-> OutputDir,
    generateTypes |-> on, typesOutputPath |-> typesOutputPath] :
     <<on, typesOutputPath>> \in
       {<<FALSE, Some(TypesDefault)>>, <<TRUE, None>>,
        <<TRUE, Some(TypesDefault)>>, <<TRUE, Some(TypesInOutputDir)>>,
        <<TRUE, Some(TypesBelowOutputDir)>>}}
    \cup {[schemaPath |-> "", outputDir |-> OutputDir,
           generateTypes |-> FALSE, typesOutputPath |-> None],
          [schemaPath |-> "openapi.json", outputDir |-> <<>>,
           generateTypes |-> FALSE, typesOutputPath |-> None]}

\* the project directory exists; the output directory may exist already
FileSystems ==
  [schemaFile : BOOLEAN,
   dirs : {{<<"app">>}, WithAncestors(OutputDir)},
   created : {{}},
   typesFiles : {{}},
   files : {<<>>}]

InitGenerate ==
  /\ schema \in Documents
  /\ config \in Configs
  /\ fs \in FileSystems
  /\ generatedFiles = <<>>
  /\ pc = "start"
  /\ error = None
  /\ path = <<>>
  /\ method = <<>>
  /\ resourceName = <<>>
  /\ pathItemArg = <<>>
  /\ called = "none"
  /\ result = <<>>
  /\ PascalIdle
  /\ UniqueIdle
  /\ LoopIdle
  /\ FetchIdle

\* throw new Error(message), logged and thrown again by the catch clause
Throw(message) == pc' = "failed" /\ error' = Some(message)

Goto(next) == pc' = next /\ error' = error

\* what no step of generateComposables changes
GenerateFrame ==
  UNCHANGED <<str, pascal, schema, path, method, methodNames, resourceName,
              pathItemArg, called, result, config, uniqueLoop, fetched>>

\* the checks of the configuration and of the schema file
StepReadSchema ==
  /\ pc = "start"
  /\ IF config.schemaPath = "" THEN Throw(SchemaPathRequired)
     ELSE IF config.outputDir = <<>> THEN Throw(OutputDirRequired)
     ELSE IF ~fs.schemaFile THEN Throw(SchemaNotFound)
     ELSE Goto("validateSchema")
  /\ UNCHANGED <<fs, generatedFiles>>
  /\ GenerateFrame

StepValidateSchema ==
  /\ pc = "validateSchema"
  /\ IF validateSchema(schema).has THEN Throw(validateSchema(schema).val)
     ELSE Goto("generateTypes")
  /\ UNCHANGED <<fs, generatedFiles>>
  /\ GenerateFrame

\* generateTypes writes the types file, or throws before it writes when
\* openapi-typescript cannot be loaded or rejects the schema
StepGenerateTypes ==
  /\ pc = "generateTypes"
  /\ IF config.generateTypes /\ config.typesOutputPath.has
       THEN \/ /\ fs' = generateTypes(fs, config.typesOutputPath.val)
               /\ Goto("extractResources")
            \/ /\ fs' = fs
               /\ Throw(TypesFailed)
       ELSE /\ fs' = fs
            /\ Goto("extractResources")
  /\ UNCHANGED generatedFiles
  /\ GenerateFrame

\* a schema without resources is generated from as any other
NeverEmpty(resources) == FALSE

\* resources.size === 0
HasNoResources(resources) == Len(resources) = 0

StepExtractResources ==
  /\ pc = "extractResources"
  /\ IF HasNoResources(extractResources(schema)) THEN Throw(NoResourcesFound)
     ELSE Goto("mkdir")
  /\ UNCHANGED <<fs, generatedFiles>>
  /\ GenerateFrame

StepMkdir ==
  /\ pc = "mkdir"
  /\ fs' = Mkdir(fs, config.outputDir)
  /\ Goto("copyUseOpenApi")
  /\ UNCHANGED generatedFiles
  /\ GenerateFrame

\* copyUseOpenApi writes the helper, or only warns when the template cannot
\* be read or the file cannot be written
StepCopyUseOpenApi ==
  /\ pc = "copyUseOpenApi"
  /\ \/ fs' = [fs EXCEPT !.files = copyUseOpenApi(@)]
     \/ fs' = fs
  /\ Goto("generate")
  /\ UNCHANGED generatedFiles
  /\ GenerateFrame

\* the loop over resourcesByFilename
StepWriteComposables ==
  /\ pc = "generate"
  /\ fs' = [fs EXCEPT !.files = WriteAll(@, GeneratedFiles(schema))]
  /\ generatedFiles' = Manifest(schema)
  /\ Goto("done")
  /\ GenerateFrame

NextGenerate ==
  \/ StepReadSchema
  \/ StepValidateSchema
  \/ StepGenerateTypes
  \/ StepExtractResources
  \/ StepMkdir
  \/ StepCopyUseOpenApi
  \/ StepWriteComposables

SpecGenerate == InitGenerate /\ [][NextGenerate]_vars

(***************************************************************************)
(* apiCall of the generated client, once $fetch has settled.               *)
(***************************************************************************)
Statuses == {400, 401, 404, 422, 503}

\* response._data: missing, without message, with an empty or a real one
ResponseData ==
  {None, Some([message |-> None]), Some([message |-> Some("")]),
   Some([message |-> Some("Not Found")])}

\* $fetch resolves, rejects with the response of the server, or rejects
\* without one
FetchOutcomes ==
  {[settled |-> "fulfilled", data |-> "data", response |-> None],
   [settled |-> "rejected", data |-> "", response |-> None]}
    \cup {[settled |-> "rejected", data |-> "",
           response |-> Some([status |-> status, data |-> data])] :
            status \in Statuses, data \in ResponseData}

ApiVerbs == {"GET", "POST", "PUT", "PATCH", "DELETE"}

InitApiCall ==
  /\ fetched \in FetchOutcomes
  /\ method \in ApiVerbs
  /\ schema = EmptySchema
  /\ path = <<>>
  /\ resourceName = <<>>
  /\ pathItemArg = <<>>
  /\ called = "none"
  /\ result = <<>>
  /\ pc = "idle"
  /\ error = None
  /\ PascalIdle
  /\ UniqueIdle
  /\ GeneratorIdle
  /\ LoopIdle

\* apiCall returns the response or throws; Nuxt may or may not define
\* createError where the client runs
CallApiCall ==
  /\ called = "none"
  /\ called' = "apiCall"
  /\ IF fetched.settled = "fulfilled"
       THEN /\ \E headers \in {None, Some("application/ld+json")} :
                 result' = [contentType |-> RequestContentType(method, headers),
                            response |-> fetched.data]
            /\ error' = error
       ELSE /\ \E createErrorDefined \in BOOLEAN :
                 error' = Some(ApiCallError(fetched, createErrorDefined))
            /\ result' = result
  /\ UNCHANGED <<str, pascal, schema, path, method, methodNames, resourceName,
                 pathItemArg, config, fs, generatedFiles, uniqueLoop, fetched,
                 pc>>

NextApiCall == CallApiCall

SpecApiCall == InitApiCall /\ [][NextApiCall]_vars

(***************************************************************************)
(* The second forEach of ensureUniqueMethodNames, one iteration of its     *)
(* body or of its while loop at a time.                                    *)
(***************************************************************************)
\* the entry is left out of the result
KeepMap(map, key, name) == map

\* finalMethodNames.set(key, name), for a key that is visited once
MapSet(map, key, name) == Append(map, [key |-> key, name |-> name])

\* before the call
InitUniqueLoop ==
  /\ methodNames = <<>>
  /\ uniqueLoop = <<>>
  /\ pc = "idle"
  /\ error = None
  /\ called = "none"
  /\ result = <<>>
  /\ PascalIdle
  /\ SchemaIdle
  /\ GeneratorIdle
  /\ FetchIdle

\* finalMethodNames.set(key, name); usedNames.add(name), which ends the
\* iteration for the entry
ClaimName(loop, candidates, name) ==
  [loop EXCEPT
     !.finalMethodNames = MapSet(@, candidates[loop.k].key, name),
     !.usedNames = @ \cup {name},
     !.k = @ + 1,
     !.counter = 0]

UniqueLoopFrame ==
  UNCHANGED <<str, pascal, schema, path, method, methodNames, resourceName,
              pathItemArg, config, fs, generatedFiles, fetched, error>>

\* the call with a candidate map, up to the second forEach: the result map
\* and the set of the claimed names are empty
StepCall ==
  /\ pc = "idle"
  /\ methodNames' \in CandidateMaps
  /\ uniqueLoop' = [k |-> 1, finalMethodNames |-> <<>>, usedNames |-> {},
                    counter |-> 0]
  /\ pc' = "forEach"
  /\ UNCHANGED <<str, pascal, schema, path, method, resourceName, pathItemArg,
                 called, result, config, fs, generatedFiles, fetched, error>>

\* the body of the forEach up to the while loop: the locals after it, and
\* whether the while loop is entered
ForEachBody(loop, candidates) ==
  LET entry == candidates[loop.k]
      methodName == entry.name
      pathSegments ==
        SelectSeq(Split(Split(entry.key, {":"})[1], {"/"}), NonEmpty)
      bySegment == SegmentName(methodName, pathSegments, Len(pathSegments),
                               loop.usedNames)
  IN IF ~MustDisambiguate(NameCount(candidates, methodName), methodName,
                          loop.usedNames)
       THEN [loop |-> ClaimName(loop, candidates, methodName),
             next |-> "forEach"]
     ELSE IF bySegment.found
       THEN [loop |-> ClaimName(loop, candidates, bySegment.name),
             next |-> "forEach"]
     ELSE [loop |-> [loop EXCEPT !.counter = 1], next |-> "while"]

StepForEach ==
  /\ pc = "forEach"
  /\ uniqueLoop.k <= Len(methodNames)
  /\ uniqueLoop' = ForEachBody(uniqueLoop, methodNames).loop
  /\ pc' = ForEachBody(uniqueLoop, methodNames).next
  /\ UNCHANGED <<called, result>>
  /\ UniqueLoopFrame

\* one test of the while condition, with the iteration or the exit it
\* leads to
WhileTest(loop, candidates) ==
  LET attemptName == candidates[loop.k].name \o Decimal(loop.counter)
  IN IF attemptName \in loop.usedNames
       THEN [loop |-> [loop EXCEPT !.counter = @ + 1], next |-> "while"]
       ELSE [loop |-> ClaimName(loop, candidates, attemptName),
             next |-> "forEach"]

StepWhile ==
  /\ pc = "while"
  /\ uniqueLoop' = WhileTest(uniqueLoop, methodNames).loop
  /\ pc' = WhileTest(uniqueLoop, methodNames).next
  /\ UNCHANGED <<called, result>>
  /\ UniqueLoopFrame

\* return finalMethodNames
StepReturn ==
  /\ pc = "forEach"
  /\ uniqueLoop.k > Len(methodNames)
  /\ pc' = "returned"
  /\ called' = "ensureUniqueMethodNames"
  /\ result' = uniqueLoop.finalMethodNames
  /\ UNCHANGED uniqueLoop
  /\ UniqueLoopFrame

NextUniqueLoop ==
  \/ StepCall
  \/ StepForEach
  \/ StepWhile
  \/ StepReturn

SpecUniqueLoop == InitUniqueLoop /\ [][NextUniqueLoop]_vars

\* an entry is left to visit: what enables StepForEach, which always changes
\* uniqueLoop
ForEachEnabled == pc = "forEach" /\ uniqueLoop.k <= Len(methodNames)

\* the function runs on, a step that can be taken is taken: weak fairness
\* of every step, that of StepForEach with its enabling condition written
\* out
SpecUniqueLoopFair ==
  /\ SpecUniqueLoop
  /\ WF_vars(StepCall)
  /\ WF_vars(StepWhile)
  /\ WF_vars(StepReturn)
  /\ ([]<>(~ForEachEnabled) \/ []<><<StepForEach>>_vars)

(***************************************************************************)
(* Properties                                                              *)
(***************************************************************************)

\* C1: for every candidate map passed to ensureUniqueMethodNames, with names
\* that collide with each other or with a name produced by an earlier
\* disambiguation, no two distinct keys of the returned map have the same
\* final name.
C1_FinalNamesInjective ==
  called = "ensureUniqueMethodNames" =>
    \A i, j \in 1..Len(result) :
      result[i].key # result[j].key => result[i].name # result[j].name

\* two entries share a candidate name, the second one was renamed to the
\* candidate name of a third entry, and the third was renamed in its turn
C1_Witness ==
  /\ called = "ensureUniqueMethodNames"
  /\ Len(result) = Len(methodNames)
  /\ \E i, j, k \in 1..Len(methodNames) :
       /\ i < j /\ j < k
       /\ methodNames[i].name = methodNames[j].name
       /\ result[j].name # methodNames[j].name
       /\ result[j].name = methodNames[k].name
       /\ result[k].name # methodNames[k].name

\* every word of s but the last has at least two characters
NoShortInnerWord(s) ==
  LET words == PascalWords(s)
  IN \A i \in 1..(Len(words) - 1) : Len(words[i]) >= 2

\* C2 (as stated): toPascalCase is idempotent: for every input string x over
\* letters of both cases and the delimiters '-', '_' and space,
\* toPascalCase(toPascalCase(x)) equals toPascalCase(x).
C2_Idempotent ==
  Len(pascal) = 2 => pascal[2] = pascal[1]

\* C2 (amended): toPascalCase(toPascalCase(x)) equals toPascalCase(x) exactly
\* when no word of x except possibly the last is a single letter, the words
\* of x being the non-empty pieces left after a dash is inserted at every
\* lowercase-to-uppercase boundary and x is split on '-', '_' and space.
C2_IdempotentOnLongWords ==
  Len(pascal) = 2 => (pascal[2] = pascal[1] <=> NoShortInnerWord(str))

\* a two-word input has been formatted twice and the second pass changed nothing
C2_Witness ==
  /\ Len(pascal) = 2
  /\ Len(PascalWords(str)) >= 2
  /\ pascal[2] = pascal[1]

\* the operation the call is about is declared in the schema
Declared ==
  /\ PathItemOf(schema, path).has
  /\ OperationOf(PathItemOf(schema, path).val, method).has

TheOperation == OperationOf(PathItemOf(schema, path).val, method).val

\* the content types the operation declares for the responses of a status
DeclaredResponseTypes(status) ==
  LET rs == IF TheOperation.responses.has THEN TheOperation.responses.val ELSE <<>>
  IN {keys \in ContentMaps :
        \E i \in 1..Len(rs) : rs[i].status = status /\ rs[i].content = Some(keys)}

\* the operation declares a content map for the responses of a status
DeclaresResponseContent(status) == DeclaredResponseTypes(status) # {}

\* C3: for every schema, path and verb, getContentType returns a non-empty
\* MIME-type string, also when the operation declares a request-body content
\* map or a 200-response content map that has no entries.
C3_NonEmptyMimeType ==
  called = "getContentType" => (result # JsUndefined /\ result # "")

\* C4: for a patch operation whose request body content map contains
\* application/merge-patch+json, getContentType returns
\* application/merge-patch+json, whatever else the request body or the
\* responses declare and whatever the path is.
C4_MergePatchWins ==
  (/\ called = "getContentType"
   /\ method = PATCH
   /\ Declared
   /\ RequestContentOf(TheOperation).has
   /\ Contains(RequestContentOf(TheOperation).val, "application/merge-patch+json"))
  => result = "application/merge-patch+json"

\* a patch whose request body declares application/json ahead of merge-patch
\* and whose 200 response declares content too
C4_Witness ==
  /\ called = "getContentType"
  /\ method = PATCH
  /\ Declared
  /\ RequestContentOf(TheOperation).has
  /\ RequestContentOf(TheOperation).val =
       <<"application/json", "application/merge-patch+json">>
  /\ DeclaresResponseContent("200")
  /\ result = "application/merge-patch+json"

\* the 200 response of the operation declares both JSON flavours and the
\* operation has no request body content map
BothJsonFlavoursInResponse ==
  /\ Declared
  /\ ~RequestContentOf(TheOperation).has
  /\ \E keys \in DeclaredResponseTypes("200") :
       /\ Contains(keys, "application/ld+json")
       /\ Contains(keys, "application/json")

\* C5: for an operation with no request body content map whose 200 response
\* declares both application/ld+json and application/json, getContentType
\* returns application/ld+json exactly when the verb is get and the path
\* contains no {id} token, and application/json in every other case.
C5_CollectionGetPrefersLd ==
  (called = "getContentType" /\ BothJsonFlavoursInResponse)
  => result = IF method = GET /\ ~Includes(path, IdToken)
                THEN "application/ld+json"
                ELSE "application/json"

\* a collection get answered with application/ld+json
C5_Witness ==
  /\ called = "getContentType"
  /\ BothJsonFlavoursInResponse
  /\ method = GET
  /\ path = PathApiTasks
  /\ result = "application/ld+json"

C7_DefaultsToJson ==
  (/\ called = "getContentType"
   /\ \/ ~Declared
      \/ /\ ~RequestContentOf(TheOperation).has
         /\ ~DeclaresResponseContent("200"))
  => result = "application/json"

\* an operation whose only declared content sits under status 201
C7_Witness ==
  /\ called = "getContentType"
  /\ Declared
  /\ ~RequestContentOf(TheOperation).has
  /\ ~DeclaresResponseContent("200")
  /\ DeclaresResponseContent("201")
  /\ result = "application/json"

\* the segments of the path of the call, split at the slashes
PathSegments == Split(path, {"/"})

\* the path contains one of the three marker substrings
HasMarkerSubstring ==
  \E marker \in {<<"/", "a", "u", "t", "h", "/">>,
                  <<"/", "l", "o", "g", "i", "n">>,
                  <<"/", "t", "o", "k", "e", "n">>} : Includes(path, marker)

\* the positions of the non-empty segments that follow an api segment
AfterApiRoot ==
  {i \in 3..Len(PathSegments) :
     PathSegments[i - 1] = <<"a", "p", "i">> /\ PathSegments[i] # <<>>}

HasApiRootShape == AfterApiRoot # {}

ResourceSegment ==
  PathSegments[CHOOSE i \in AfterApiRoot : \A j \in AfterApiRoot : i <= j]

\* the first tags the path item of the call declares, under any verb
DeclaredFirstTags ==
  LET item == PathItemOf(schema, path)
  IN IF ~item.has THEN {}
     ELSE {item.val[i].op.tags.val[1] :
             i \in {j \in 1..Len(item.val) :
                      /\ item.val[j].op.tags.has
                      /\ Len(item.val[j].op.tags.val) > 0}}

\* C8 (as stated): getResourceName returns 'authentication' if and only if
\* the path contains a literal /auth/ segment or its final segment is login
\* or token; /api/tokens/{id} or /api/login-history is resolved by the later
\* rules and not to 'authentication'.
C8_AuthOnlyBySegment ==
  called = "getResourceName" =>
    (result = Authentication
       <=> \/ Includes(path, <<"/", "a", "u", "t", "h", "/">>)
           \/ PathSegments[Len(PathSegments)] \in
                {<<"l", "o", "g", "i", "n">>, <<"t", "o", "k", "e", "n">>})

\* C8 (amended): getResourceName returns 'authentication' for every path that
\* contains '/auth/', '/login' or '/token' as a substring, so also for
\* /api/tokens/{id} and /api/login-history; a path that contains none of the
\* three is resolved by the later rules, and gets 'authentication' from them
\* only if its resource segment or its converted tag is that very word.
C8_AuthBySubstring ==
  called = "getResourceName" =>
    /\ HasMarkerSubstring => result = Authentication
    /\ (~HasMarkerSubstring /\ result = Authentication) =>
         \/ HasApiRootShape /\ ResourceSegment = Authentication
         \/ \E tag \in DeclaredFirstTags : toLowerCase(tag) = Authentication

\* /api/tokens/{id} has been resolved to 'authentication'
C8_Witness ==
  /\ called = "getResourceName"
  /\ path = PathApiTokensId
  /\ result = Authentication

\* C9: for every path that does not match the authentication rule and has a
\* segment following the API-root segment, getResourceName returns exactly
\* that segment, unchanged, whatever tags the operations of the path carry.
C9_SegmentAfterApiRoot ==
  (called = "getResourceName" /\ ~HasMarkerSubstring /\ HasApiRootShape)
  => result = ResourceSegment

\* /api/tasks/{id}, declared with a tag, has been resolved to 'tasks'
C9_Witness ==
  /\ called = "getResourceName"
  /\ path = PathApiTasksId
  /\ DeclaredFirstTags = {TagUserLimits}
  /\ result = <<"t", "a", "s", "k", "s">>

\* the identity the tag fallback yields when an operation qualifies by Test:
\* the first tag, in dash form, of the first qualifying operation in the
\* order get, post, put, patch, delete; the empty string if there is none
\* or the path is not in the schema
TagFallback(Test(_)) ==
  LET item == PathItemOf(schema, path)
      order == << <<"g", "e", "t">>, <<"p", "o", "s", "t">>, <<"p", "u", "t">>,
                  <<"p", "a", "t", "c", "h">>,
                  <<"d", "e", "l", "e", "t", "e">> >>
  IN IF ~item.has THEN <<>>
     ELSE LET hits == {k \in 1..Len(order) :
                         /\ OperationOf(item.val, order[k]).has
                         /\ Test(OperationOf(item.val, order[k]).val)}
          IN IF hits = {} THEN <<>>
             ELSE LET k == CHOOSE i \in hits : \A j \in hits : i <= j
                  IN TagToResourceName(
                       OperationOf(item.val, order[k]).val.tags.val[1])

HasNonEmptyTagList(operation) ==
  operation.tags.has /\ Len(operation.tags.val) > 0

StartsWithNonEmptyTag(operation) ==
  HasNonEmptyTagList(operation) /\ operation.tags.val[1] # <<>>

\* C10 (as stated): for a path matching neither the authentication rule nor
\* the API-root shape, getResourceName returns the first tag, in lowercase
\* dash form, of the first operation (in the order get, post, put, patch,
\* delete) that has a non-empty tag list; the empty string if no operation
\* has a tag or the path is not in the schema.
C10_FirstNonEmptyTagList ==
  (called = "getResourceName" /\ ~HasMarkerSubstring /\ ~HasApiRootShape)
  => result = TagFallback(HasNonEmptyTagList)

\* C10 (amended): the operation that decides is the first one, in the order
\* get, post, put, patch, delete, whose first tag is a non-empty string; an
\* operation whose tag list starts with the empty string is passed over like
\* an operation without tags.
C10_FirstNonEmptyTag ==
  (called = "getResourceName" /\ ~HasMarkerSubstring /\ ~HasApiRootShape)
  => result = TagFallback(StartsWithNonEmptyTag)

\* /custom/path declares post ahead of get, and the tag of get, with its run
\* of two spaces, has decided
C10_Witness ==
  /\ called = "getResourceName"
  /\ path = PathCustomPath
  /\ PathItemOf(schema, path).has
  /\ Len(PathItemOf(schema, path).val) = 2
  /\ PathItemOf(schema, path).val[1].key = POST
  /\ PathItemOf(schema, path).val[1].op.tags = Some(<<TagUserLimits>>)
  /\ PathItemOf(schema, path).val[2].key = GET
  /\ PathItemOf(schema, path).val[2].op.tags = Some(<<TagLoginCheck, TagUserLimits>>)
  /\ result = <<"l", "o", "g", "i", "n", "-", "c", "h", "e", "c", "k">>

HasUpperCase(s) == \E i \in 1..Len(s) : IsUpper(s[i])

\* C11 (as stated): every non-empty resource identity returned by
\* getResourceName, and therefore every member of extractResources(schema),
\* is a lowercase string: it contains no uppercase letter, for every path
\* and schema.
C11_IdentityLowercase ==
  (called = "getResourceName" /\ result # <<>>) => ~HasUpperCase(result)

\* C11 (amended): an identity that comes from the authentication rule or
\* from the tag fallback contains no uppercase letter; an identity taken
\* from the path is the segment after the API root exactly as written, so
\* it contains an uppercase letter exactly when that segment does.
C11_LowercaseUnlessSegment ==
  (called = "getResourceName" /\ result # <<>>) =>
    (HasUpperCase(result)
       <=> /\ ~HasMarkerSubstring
           /\ HasApiRootShape
           /\ HasUpperCase(ResourceSegment))

\* a tag written in PascalCase has been resolved to a lowercase identity
C11_Witness ==
  /\ called = "getResourceName"
  /\ path = PathCustomPath
  /\ DeclaredFirstTags = {TagUserLimits}
  /\ result = <<"u", "s", "e", "r", "-", "l", "i", "m", "i", "t", "s">>

\* the paths of the schema, as the schema declares them
SchemaPaths == {schema.paths[i].path : i \in 1..Len(schema.paths)}

\* the pairs of a resource that extractResources returned, by its place in
\* the result, and a path that getResourcePaths lists for it
Listing ==
  UNION {{<<k, listed[j].path>> : j \in 1..Len(listed)} :
           <<k, listed>> \in {<<i, getResourcePaths(result[i], schema)>> :
                                i \in 1..Len(result)}}

\* the resources whose path list holds the path p
OwnersOf(listing, p) == {k \in 1..Len(result) : <<k, p>> \in listing}

\* C12: each path of the schema with a non-empty identity is listed by
\* getResourcePaths(r, schema) for exactly one r of extractResources(schema),
\* a path with the empty identity is listed for none, and extractResources
\* never holds the empty string.
C12_PathsPartitioned ==
  called = "extractResources" =>
    /\ \A k \in 1..Len(result) : result[k] # <<>>
    /\ \A listing \in {Listing} :
         \A p \in SchemaPaths :
           IF getResourceName(p, schema) # <<>>
             THEN Cardinality(OwnersOf(listing, p)) = 1
             ELSE OwnersOf(listing, p) = {}

\* two resources found, one of two paths, and a path that has no identity
C12_Witness ==
  /\ called = "extractResources"
  /\ result = <<Tasks, UserLimitsDash>>
  /\ SchemaPaths = {PathApiTasks, PathApiUserLimits, PathCustomPath}
  /\ getResourceName(PathCustomPath, schema) = <<>>

\* the UTF-16 code units of the characters of the model
CodeUnit(c) ==
  CASE c = " " -> 32 [] c = "-" -> 45 [] c = "/" -> 47 [] c = ":" -> 58
    [] c = "_" -> 95 [] c = "{" -> 123 [] c = "}" -> 125
    [] c \in {"0", "1", "2", "3", "4", "5", "6", "7", "8", "9"} ->
         48 + (CHOOSE d \in 0..9 : Digits[d + 1] = c)
    [] IsUpper(c) -> 64 + (CHOOSE i \in 1..26 : UpperChars[i] = c)
    [] IsLower(c) -> 96 + (CHOOSE i \in 1..26 : LowerChars[i] = c)

\* a comes before b in lexicographic order of the code units
RECURSIVE LexicographicallyBefore(_, _)
LexicographicallyBefore(a, b) ==
  IF b = <<>> THEN FALSE
  ELSE IF a = <<>> THEN TRUE
  ELSE IF CodeUnit(a[1]) # CodeUnit(b[1]) THEN CodeUnit(a[1]) < CodeUnit(b[1])
  ELSE LexicographicallyBefore(Tail(a), Tail(b))

\* the result of getResourcePaths holds exactly the paths of the schema
\* whose identity is the resource asked for, each once and each with the
\* path item the schema gives it
ExactlyThePathsOfResource ==
  /\ {result[i].path : i \in 1..Len(result)}
       = {p \in SchemaPaths : getResourceName(p, schema) = resourceName}
  /\ \A i, j \in 1..Len(result) : result[i].path = result[j].path => i = j
  /\ \A i \in 1..Len(result) :
       \E k \in 1..Len(schema.paths) :
         /\ schema.paths[k].path = result[i].path
         /\ schema.paths[k].item = result[i].pathItem

\* C13 (as stated): getResourcePaths(r, schema) returns exactly the paths
\* whose identity is r, each with its own path item, in ascending
\* lexicographic order of the raw path string, whatever the order of the
\* paths in the schema.
C13_SortedLexicographically ==
  called = "getResourcePaths" =>
    /\ ExactlyThePathsOfResource
    /\ \A i, j \in 1..Len(result) :
         i < j => LexicographicallyBefore(result[i].path, result[j].path)

\* C13 (amended): getResourcePaths(r, schema) returns exactly the paths
\* whose identity is r, each with its own path item, in ascending order of
\* String.prototype.localeCompare on the raw path string, whatever the
\* order of the paths in the schema.  That order is the collation of the
\* host (punctuation such as '{' before digits before letters), not the
\* lexicographic order of the code units: /api/tasks/{id} comes before
\* /api/tasks/stats.
C13_SortedByLocaleCompare ==
  called = "getResourcePaths" =>
    /\ ExactlyThePathsOfResource
    /\ \A i, j \in 1..Len(result) :
         i < j => localeCompare(result[i].path, result[j].path) < 0

\* the three paths of tasks, declared in descending order, come back
\* ascending
C13_Witness ==
  /\ called = "getResourcePaths"
  /\ resourceName = Tasks
  /\ Len(schema.paths) = 3
  /\ schema.paths[1].path = PathApiTasksStats
  /\ schema.paths[2].path = PathApiTasksId
  /\ schema.paths[3].path = PathApiTasks
  /\ Len(result) = 3
  /\ result[1].path = PathApiTasks
  /\ result[2].path = PathApiTasksId
  /\ result[3].path = PathApiTasksStats

\* the schemas that hold the paths and the path items of the schema of the
\* state, in every order of the path keys
Reordered ==
  {[paths |-> [i \in 1..Len(schema.paths) |-> schema.paths[order[i]]]] :
     order \in {o \in [1..Len(schema.paths) -> 1..Len(schema.paths)] :
                  \A i, j \in 1..Len(schema.paths) : o[i] = o[j] => i = j}}

\* the files as a set: what each file holds, whatever the order in which
\* the files are written
FileSet(files) == {files[i] : i \in 1..Len(files)}

\* C14: the generated output does not depend on the order of the path keys:
\* a schema with the same paths and path items in another order yields the
\* same files, each with the same final method name and content type for
\* every (path, verb) and the methods in the same order, also when a file
\* merges several resources.
C14_OutputIndependentOfKeyOrder ==
  called = "generateComposables" =>
    \A other \in Reordered : FileSet(GeneratedFiles(other)) = FileSet(result)

\* the five verbs that generate a method
RecognizedVerbs == {GET, POST, PUT, PATCH, DELETE}

\* the places of the path item whose key is one of the five verbs
VerbPlaces ==
  {i \in 1..Len(pathItemArg) : pathItemArg[i].key \in RecognizedVerbs}

\* the k-th of those places, in declaration order
VerbPlace(k) ==
  CHOOSE i \in VerbPlaces : Cardinality({j \in VerbPlaces : j <= i}) = k

\* C15: getHttpMethods(pathItem) returns exactly the keys of the path item
\* that are among get, post, put, patch and delete, in the declaration order
\* of the path item; no other key (parameters, options, head, trace) is in
\* the result.
C15_OnlyVerbsInDeclarationOrder ==
  called = "getHttpMethods" =>
    /\ Len(result) = Cardinality(VerbPlaces)
    /\ \A k \in 1..Len(result) : result[k] = pathItemArg[VerbPlace(k)].key
    /\ \A k \in 1..Len(result) :
         result[k] \notin {PARAMETERS, OPTIONS, HEAD, TRACE}

\* a path item that declares delete, then options, then get
C15_Witness ==
  /\ called = "getHttpMethods"
  /\ Len(pathItemArg) = 3
  /\ pathItemArg[1].key = DELETE
  /\ pathItemArg[2].key = OPTIONS
  /\ pathItemArg[3].key = GET
  /\ result = <<DELETE, GET>>

\* the shapes of the path of the call: /api/<r>, /api/<r>/{id} and
\* /api/<r>/{id}/<action>, with <r> and <action> free of parameters
IsLiteralSegment(seg) == seg # <<>> /\ ~Includes(seg, <<"{">>)

UnderApiRoot ==
  /\ Len(PathSegments) >= 3
  /\ PathSegments[1] = <<>>
  /\ PathSegments[2] = <<"a", "p", "i">>
  /\ IsLiteralSegment(PathSegments[3])

IsCollectionPath == UnderApiRoot /\ Len(PathSegments) = 3

IsItemPath ==
  /\ UnderApiRoot
  /\ Len(PathSegments) = 4
  /\ PathSegments[4] = <<"{", "i", "d", "}">>

IsActionPath ==
  /\ UnderApiRoot
  /\ Len(PathSegments) = 5
  /\ PathSegments[4] = <<"{", "i", "d", "}">>
  /\ IsLiteralSegment(PathSegments[5])

\* the resource a path under the API root is named after: the segment <r>,
\* or authentication when the path holds an authentication marker
NamedResource ==
  IF HasMarkerSubstring THEN Authentication ELSE PathSegments[3]

\* the singular of a plural name: -ies to -y, -sses to -ss, a final s
\* dropped unless the name ends in ss
SingularForm(name) ==
  LET n == Len(name)
      last(k) == IF n >= k THEN SubSeq(name, n - k + 1, n) ELSE <<>>
  IN CASE last(3) = <<"i", "e", "s">> -> SubSeq(name, 1, n - 3) \o <<"y">>
       [] last(3) # <<"i", "e", "s">> /\ last(4) = <<"s", "s", "e", "s">> ->
            SubSeq(name, 1, n - 2)
       [] last(3) # <<"i", "e", "s">> /\ last(4) # <<"s", "s", "e", "s">>
            /\ last(1) = <<"s">> /\ last(2) # <<"s", "s">> ->
            SubSeq(name, 1, n - 1)
       [] OTHER -> name

\* C16: for every resource identity r, the candidate name of get on the
\* collection path /api/r differs from the candidate name of get on the
\* item path /api/r/{id}.
C16_CollectionAndItemNamesDiffer ==
  (/\ called = "generateMethodName"
   /\ method = GET
   /\ IsCollectionPath
   /\ getResourceName(path, schema) = PathSegments[3]) =>
    result # generateMethodName(path \o <<"/", "{", "i", "d", "}">>, GET,
                                OnePathSchema(path \o <<"/", "{", "i", "d", "}">>,
                                              ItemPostGet))

ParameterPlaces ==
  {i \in 1..Len(PathSegments) :
     /\ Len(PathSegments[i]) > 2
     /\ PathSegments[i][1] = "{"
     /\ PathSegments[i][Len(PathSegments[i])] = "}"}

FirstParameterName ==
  LET i == CHOOSE k \in ParameterPlaces : \A j \in ParameterPlaces : k <= j
  IN SubSeq(PathSegments[i], 2, Len(PathSegments[i]) - 1)

\* the path of the call has a parameter and none is named id
HasOnlyCustomParameters ==
  /\ ParameterPlaces # {}
  /\ \A i \in ParameterPlaces : PathSegments[i] # <<"{", "i", "d", "}">>

\* the {id} path of the resource r
ItemPathOf(r) == ApiPrefix \o r \o <<"/", "{", "i", "d", "}">>

Joiners == {"-", "_", " "}

\* the lowercase words a text is made of: a joiner ends a word, and so does
\* an uppercase letter, which is the first letter of the next word
RECURSIVE WordsOf(_, _, _)
WordsOf(s, word, words) ==
  LET ended == IF word = <<>> THEN words ELSE Append(words, word)
  IN IF s = <<>> THEN ended
     ELSE IF Head(s) \in Joiners THEN WordsOf(Tail(s), <<>>, ended)
     ELSE IF IsUpper(Head(s)) THEN WordsOf(Tail(s), <<LowerOf(Head(s))>>, ended)
     ELSE WordsOf(Tail(s), Append(word, Head(s)), words)

\* the words, each with its first letter in uppercase, one after the other
RECURSIVE CapitalizedWords(_)
CapitalizedWords(words) ==
  IF words = <<>> THEN <<>>
  ELSE (<<UpperOf(Head(words)[1])>> \o Tail(Head(words)))
         \o CapitalizedWords(Tail(words))

\* the text is lowercase words joined by joiners or camelCase boundaries:
\* an uppercase letter only follows a letter
IsJoinedWords(s) ==
  \A i \in 1..Len(s) :
    IsUpper(s[i]) => i > 1 /\ (IsLower(s[i - 1]) \/ IsUpper(s[i - 1]))

\* the same, and no word of a single letter is followed by a camelCase
\* boundary: an uppercase letter only follows a lowercase letter
IsJoinedLongWords(s) ==
  \A i \in 1..Len(s) : IsUpper(s[i]) => i > 1 /\ IsLower(s[i - 1])

HasJoiner(s) == \E i \in 1..Len(s) : s[i] \in Joiners

\* C20 (as stated): toPascalCase maps any sequence of lowercase words to the
\* concatenation of the capitalized words, whether the words are joined by
\* '-', '_', a space, a mix of them (also repeated, leading or trailing) or
\* camelCase boundaries; the result never contains '-', '_' or a space, and
\* the empty string maps to the empty string.
C20_WordsCapitalized ==
  Len(pascal) >= 1 =>
    /\ IsJoinedWords(str) => pascal[1] = CapitalizedWords(WordsOf(str, <<>>, <<>>))
    /\ ~HasJoiner(pascal[1])
    /\ str = <<>> => pascal[1] = <<>>

\* C20 (amended): the same for the texts in which every camelCase boundary
\* follows a lowercase letter, that is, in which no word of a single letter
\* is followed by a camelCase boundary (aBA, the words a, b and a, becomes
\* ABa); for every input the result contains no '-', '_' or space, and the
\* empty string maps to the empty string.
C20_LongWordsCapitalized ==
  Len(pascal) >= 1 =>
    /\ IsJoinedLongWords(str) =>
         pascal[1] = CapitalizedWords(WordsOf(str, <<>>, <<>>))
    /\ ~HasJoiner(pascal[1])
    /\ str = <<>> => pascal[1] = <<>>

\* a leading joiner, two words joined by a camelCase boundary, a trailing
\* joiner
C20_Witness ==
  /\ Len(pascal) >= 1
  /\ str = <<"_", "a", "B", "-">>
  /\ pascal[1] = <<"A", "B">>

\* the paths of the schema that belong to the resource of the call
PathsOfResource ==
  {p \in SchemaPaths : getResourceName(p, schema) = resourceName}

\* the verbs a path of the schema declares, and the place of a verb among
\* the keys of its path item
VerbsDeclaredAt(p) ==
  LET item == PathItemOf(schema, p).val
  IN {item[i].key : i \in 1..Len(item)} \cap RecognizedVerbs

VerbRank(p, verb) ==
  LET item == PathItemOf(schema, p).val
  IN CHOOSE i \in 1..Len(item) : item[i].key = verb

\* the place of a path among the sorted paths of the resource
PathRank(p) ==
  Cardinality({q \in PathsOfResource : localeCompare(q, p) < 0})

\* the (path, verb) pairs of the resource of the call
PairsOfResource ==
  {<<p, verb>> : p \in PathsOfResource, verb \in RecognizedVerbs}
    \cap {<<p, verb>> \in SchemaPaths \X RecognizedVerbs :
            verb \in VerbsDeclaredAt(p)}

\* the final names of the resource of the call: the uniqueness resolver on
\* the candidate names of its pairs
FinalNamesOfResource ==
  ensureUniqueMethodNames(
    CandidateMethodNames(Endpoints(getResourcePaths(resourceName, schema)),
                         schema))

\* C21: getGeneratedMethods(r, schema) returns exactly one record per
\* (path, verb) pair of resource r, ordered by sorted path and then by the
\* declaration order of the verb in the path item; each record carries the
\* final method name of the pair, its path, its verb and the content type
\* getContentType selects for it.
C21_OneRecordPerPair ==
  called = "getGeneratedMethods" =>
    /\ Len(result) = Cardinality(PairsOfResource)
    /\ {<<result[i].path, result[i].httpMethod>> : i \in 1..Len(result)}
         = PairsOfResource
    /\ \A i, j \in 1..Len(result) :
         i < j =>
           \/ PathRank(result[i].path) < PathRank(result[j].path)
           \/ /\ result[i].path = result[j].path
              /\ VerbRank(result[i].path, result[i].httpMethod)
                   < VerbRank(result[j].path, result[j].httpMethod)
    /\ \A final \in {FinalNamesOfResource} :
         \A i \in 1..Len(result) :
           /\ result[i].name
                = MapGet(final, MapKey(result[i].path, result[i].httpMethod))
           /\ result[i].contentType
                = getContentType(result[i].path, result[i].httpMethod, schema)

\* the five methods of three paths of tasks that the schema declares in
\* descending order
C21_Witness ==
  /\ called = "getGeneratedMethods"
  /\ resourceName = Tasks
  /\ Len(schema.paths) = 3
  /\ schema.paths[1].path = PathApiTasksStats
  /\ schema.paths[2].path = PathApiTasksId
  /\ schema.paths[3].path = PathApiTasks
  /\ Len(result) = 5
  /\ result[1].name = <<"p", "o", "s", "t", "T", "a", "s", "k", "s">>
  /\ result[2].contentType = "application/ld+json"
  /\ result[3].path = PathApiTasksId
  /\ result[5].httpMethod = GET

\* no path of the schema resolves to the resource of the call
NoPathOfResource ==
  \A p \in SchemaPaths : getResourceName(p, schema) # resourceName

\* C22: generateComposable for a resource identity that no path of the
\* schema resolves to returns the empty string, and getGeneratedMethods for
\* such an identity returns the empty list; neither raises an error.
C22_EmptyForUnknownResource ==
  NoPathOfResource =>
    /\ called = "generateComposable" => result = None
    /\ called = "getGeneratedMethods" => result = <<>>

\* generateComposable was asked for goals in a schema of two other
\* resources
C22_Witness ==
  /\ called = "generateComposable"
  /\ resourceName = Goals
  /\ SchemaPaths = {PathApiTasks, PathApiUserLimits}
  /\ result = None

\* the run has failed in validateSchema
FailedInValidation ==
  /\ pc = "failed"
  /\ error \in {Some(MissingOpenapi), Some(NoPathsDefined)}

\* the state of the file system before the run
NothingWritten ==
  /\ fs.created = {}
  /\ fs.typesFiles = {}
  /\ fs.files = <<>>

\* the schema file has been read and parsed
SchemaParsed ==
  /\ pc # "start"
  /\ error \notin {Some(SchemaPathRequired), Some(OutputDirRequired),
                   Some(SchemaNotFound)}

\* C23: when the parsed schema has no openapi field or declares no paths,
\* generateComposables fails with an error before any generation step: the
\* run goes no further than validateSchema, and at the failure no types
\* file, no directory, no helper file and no composable file has been
\* written.
C23_InvalidSchemaFailsBeforeAnyWrite ==
  (/\ SchemaParsed
   /\ \/ "openapi" \notin DOMAIN schema
      \/ "paths" \notin DOMAIN schema
      \/ Len(schema.paths) = 0)
    => /\ pc \in {"validateSchema", "failed"}
       /\ pc = "failed" =>
            error \in {Some(MissingOpenapi), Some(NoPathsDefined)}
       /\ NothingWritten

\* a run on a schema without the openapi field, with types requested, has
\* failed in validateSchema
C23_Witness ==
  /\ "openapi" \notin DOMAIN schema
  /\ "paths" \in DOMAIN schema
  /\ Len(schema.paths) > 0
  /\ config.generateTypes
  /\ config.typesOutputPath.has
  /\ FailedInValidation

\* the schema is well-formed and every path of it resolves to the empty
\* identity
OnlyUnroutablePaths ==
  /\ "openapi" \in DOMAIN schema
  /\ schema.openapi # ""
  /\ "paths" \in DOMAIN schema
  /\ Len(schema.paths) > 0
  /\ \A i \in 1..Len(schema.paths) :
       getResourceName(schema.paths[i].path, schema) = <<>>

HelperOrComposableWritten == fs.files # <<>>

\* C24 as stated: on a well-formed schema whose paths all resolve to the
\* empty identity, generateComposables goes no further than
\* extractResources, and when it has failed with 'No API resources found in
\* the schema' it has written no helper file and no composable file and has
\* not created the output directory.
C24_NoResourcesNothingCreated ==
  (SchemaParsed /\ OnlyUnroutablePaths)
    => /\ pc \in {"validateSchema", "generateTypes", "extractResources",
                  "failed"}
       /\ (pc = "failed" /\ error = Some(NoResourcesFound)) =>
            /\ ~HelperOrComposableWritten
            /\ config.outputDir \notin fs.created

\* generateTypes is called with a path in or below the output directory
TypesInsideOutputDir ==
  /\ config.generateTypes
  /\ config.typesOutputPath.has
  /\ config.outputDir \in WithAncestors(Dirname(config.typesOutputPath.val))

\* C24, amended: on such a schema the run goes no further than
\* extractResources and fails, with 'No API resources found in the schema'
\* unless generateTypes has thrown before; when it has failed, no helper
\* file and no composable file has been written, and the output directory
\* has been created only by generateTypes, for a types path in or below it.
C24_NoResourcesNoOutputFile ==
  (SchemaParsed /\ OnlyUnroutablePaths)
    => /\ pc \in {"validateSchema", "generateTypes", "extractResources",
                  "failed"}
       /\ pc = "failed" =>
            /\ error \in {Some(NoResourcesFound), Some(TypesFailed)}
            /\ error = Some(TypesFailed) =>
                 (config.generateTypes /\ config.typesOutputPath.has)
            /\ ~HelperOrComposableWritten
            /\ config.outputDir \in fs.created => TypesInsideOutputDir
            /\ fs.typesFiles # {} => error = Some(NoResourcesFound)

\* a run that has failed for want of resources after the types file was
\* written below the output directory, which did not exist
C24_Witness ==
  /\ OnlyUnroutablePaths
  /\ pc = "failed"
  /\ error = Some(NoResourcesFound)
  /\ config.outputDir \in fs.created
  /\ fs.typesFiles = {TypesBelowOutputDir}

\* apiCall has thrown
ApiCallThrew == called = "apiCall" /\ error.has

\* C25: every error apiCall throws carries statusCode and statusMessage: the
\* status of the failed response with its message, or 500 with 'Network
\* Error' when there is no response.
C25_ErrorsCarryStatusCodeAndMessage ==
  ApiCallThrew
    => /\ error.val.statusCode.has
       /\ error.val.statusMessage.has
       /\ fetched.response.has =>
            error.val.statusCode.val = fetched.response.val.status
       /\ ~fetched.response.has =>
            /\ error.val.statusCode.val = 500
            /\ error.val.statusMessage.val = "Network Error"

\* what the thrown error does carry: statusCode, and the message as the
\* message of the Error
ApiCallThrowsFallbackError ==
  ApiCallThrew
    => /\ error.val.statusCode.has
       /\ ~error.val.statusMessage.has
       /\ IF fetched.response.has
            THEN /\ error.val.statusCode.val = fetched.response.val.status
                 /\ error.val.message \in {"API Error", "Not Found"}
            ELSE /\ error.val.statusCode.val = 500
                 /\ error.val.message = "Network Error"

\* the keys of a map, in insertion order
KeysOf(map) == [i \in 1..Len(map) |-> map[i].key]

\* C26: ensureUniqueMethodNames terminates on every candidate map, the
\* while loop of the numeric suffix included, and is total: the map it
\* returns has exactly the keys of the candidate map.
C26_TerminatesWithSameKeys ==
  <>[](/\ pc = "returned"
       /\ KeysOf(result) = KeysOf(methodNames)
       /\ result = ensureUniqueMethodNames(methodNames))

\* the function has returned a map in which the while loop has counted to 2
C26_Witness ==
  /\ pc = "returned"
  /\ Len(result) = 3
  /\ \A i \in 1..3 : methodNames[i].name = <<"g", "e", "t", "A">>
  /\ result[3].name = <<"g", "e", "t", "A", "2">>

\* the final names given to the entries before entry k
ClaimedBefore(k) == {result[j].name : j \in 1..(k - 1)}

\* the candidate names of the map are pairwise distinct
AllDistinct(map) ==
  \A i, j \in 1..Len(map) : map[i].name = map[j].name => i = j

\* C27: a pair whose candidate name occurs once in the map and has not been
\* claimed by an earlier pair keeps its candidate name; hence a map of
\* pairwise distinct names is returned unchanged, and the function applied
\* to its own result changes nothing.
C27_UniqueCandidateKept ==
  called = "ensureUniqueMethodNames"
    => /\ \A k \in 1..Len(methodNames) :
            (/\ \A j \in 1..Len(methodNames) :
                  methodNames[j].name = methodNames[k].name => j = k
             /\ methodNames[k].name \notin ClaimedBefore(k))
              => result[k] = methodNames[k]
       /\ AllDistinct(methodNames) => result = methodNames
       /\ ensureUniqueMethodNames(result) = result

\* a candidate that occurs once is kept beside two colliding ones, one of
\* which is renamed
C27_Witness ==
  /\ called = "ensureUniqueMethodNames"
  /\ Len(methodNames) = 3
  /\ methodNames[1].name = <<"g", "e", "t", "A">>
  /\ methodNames[2].name = <<"g", "e", "t", "A">>
  /\ methodNames[3].name = <<"p", "o", "s", "t", "A">>
  /\ result[3].name = <<"p", "o", "s", "t", "A">>
  /\ result # methodNames

\* the segments of the path of a key that may be inserted, from the end of
\* the path to its start
InsertableSegments(key) ==
  LET segments == SelectSeq(Split(Split(key, {":"})[1], {"/"}), NonEmpty)
      Insertable(seg) == seg # <<"a", "p", "i">> /\ ~Includes(seg, <<"{">>)
      kept == SelectSeq(segments, Insertable)
  IN [i \in 1..Len(kept) |-> kept[Len(kept) + 1 - i]]

\* the verb prefixes a name starts with
VerbPrefixes(name) ==
  {verb \in {GET, CREATE, DELETE, PATCH, PUT} : StartsWith(name, verb)}

\* the name with the segment, identifier-formatted, right after its verb
WithSegmentAfterVerb(name, verb, segment) ==
  verb \o toPascalCase(segment) \o SliceFrom(name, Len(verb))

\* C28: a pair whose candidate name occurs more than once, or is claimed
\* already, gets the candidate with a path segment, identifier-formatted,
\* inserted right after its leading verb prefix: the first segment, walking
\* from the end of the path and skipping 'api' and the parameters, whose
\* name is unclaimed; a numeric suffix is used only when no segment gives an
\* unclaimed name.
C28_SegmentInsertedAfterVerb ==
  called = "ensureUniqueMethodNames"
    => \A k \in 1..Len(methodNames) :
         LET name == methodNames[k].name
             segments == InsertableSegments(methodNames[k].key)
             verbs == VerbPrefixes(name)
             unclaimed ==
               {i \in 1..Len(segments) :
                  \E verb \in verbs :
                    WithSegmentAfterVerb(name, verb, segments[i])
                      \notin ClaimedBefore(k)}
         IN (NameCount(methodNames, name) > 1 \/ name \in ClaimedBefore(k))
              => IF unclaimed # {}
                   THEN \E verb \in verbs :
                          result[k].name =
                            WithSegmentAfterVerb(
                              name, verb,
                              segments[CHOOSE i \in unclaimed :
                                         \A j \in unclaimed : i <= j])
                   ELSE \E n \in 1..(Len(methodNames) + 1) :
                          result[k].name = name \o Decimal(n)

\* the names of the methods the file of the output directory defines
DefinedIn(fileName) ==
  LET file == fs.files[CHOOSE i \in 1..Len(fs.files) :
                         fs.files[i].fileName = fileName]
  IN [k \in 1..Len(file.content.composable.methods) |->
        file.content.composable.methods[k].name]

\* C29: for every file the run has emitted, a file shared by several
\* resources included, the names of the file are pairwise distinct, as one
\* application of the uniqueness resolver to the combined candidate map
\* leaves them, and the manifest reports exactly the method names the
\* rendered file defines.
C29_ManifestNamesAreFileNames ==
  pc = "done"
    => \A i \in 1..Len(generatedFiles) :
         LET reported == generatedFiles[i].methods
             defined == DefinedIn(generatedFiles[i].fileName)
         IN /\ \A k, l \in 1..Len(defined) : defined[k] = defined[l] => k = l
            /\ {reported[k] : k \in 1..Len(reported)}
                 = {defined[k] : k \in 1..Len(defined)}

\* C30: in a run of generateComposables that succeeds, no composable of a
\* resource is written to the file name of the shared helper: after the run
\* a file useOpenApi.ts of the output directory holds the helper that was
\* copied, whatever the resource identities are.
C30_HelperFileKeepsHelper ==
  pc = "done"
    => \A i \in 1..Len(fs.files) :
         fs.files[i].fileName = UseOpenApiTs
           => fs.files[i].content = HelperContent

====
